---- MODULE Spec2Model ----
\* A model of @technomoron/env-loader (src/src/env-loader.ts): the pipeline
\* createConfig = loadEnvFiles -> load -> validate, and the strict-access
\* proxy of createConfigProxy.
\*
\* Representation.  A JavaScript string is a sequence of one-character
\* strings, so that toLowerCase, trim, split and the line pattern are
\* computed character by character.  A JavaScript value is a tagged record:
\*   [t |-> "undefined"], [t |-> "str", s |-> <<..>>], [t |-> "num", n |-> i],
\*   [t |-> "bool", b |-> TRUE], [t |-> "list", l |-> << <<..>>, .. >>],
\*   [t |-> "fn", f |-> <<..>>]   (a member inherited from Object.prototype).
\* A JavaScript object used as a map is a sequence of [k, v] entries in
\* insertion order with distinct keys (the order Object.keys / Object.entries
\* enumerate for keys that are not array indices; an array-index key only
\* ever matches itself under lowercasing, so its earlier position never
\* changes which entry a case-insensitive `find` returns).
EXTENDS Integers, Sequences, FiniteSets, TLC

VARIABLES
    envOptions,     \* the schema, in Object.entries order
    config,         \* this.config: merge, envFallback, debug
    fs,             \* file system: <<searchPath, fileName>> -> text or NoFile
    procEnv,        \* process.env, in Object.entries order
    pc,             \* position in createConfig / createConfigProxy
    filesInOrder,   \* loadEnvFiles: the candidate paths found
    fileEntries,    \* loadEnvFiles: the returned map `acc`
    dups,           \* loadEnvFiles: duplicate-key warnings
    merged,         \* load: the returned map `out`
    result,         \* validate: the returned config
    thrown,         \* validate: the lines of the thrown report, or <<>>
    lastGet,        \* proxy get trap: the last property read and its outcome
    writes,         \* the caller's assignments and deletions on the config
    blocks          \* the option blocks handed to genTemplateFromBlocks

vars == <<envOptions, config, fs, procEnv, pc, filesInOrder, fileEntries,
          dups, merged, result, thrown, lastGet, writes, blocks>>

-----------------------------------------------------------------------------
\* Characters and strings

UpperLetters ==
    <<"A","B","C","D","E","F","G","H","I","J","K","L","M",
      "N","O","P","Q","R","S","T","U","V","W","X","Y","Z">>
LowerLetters ==
    <<"a","b","c","d","e","f","g","h","i","j","k","l","m",
      "n","o","p","q","r","s","t","u","v","w","x","y","z">>
Digits == <<"0","1","2","3","4","5","6","7","8","9">>

Range(f) == {f[i] : i \in DOMAIN f}

IsUpper(c) == c \in Range(UpperLetters)
IsLower(c) == c \in Range(LowerLetters)
IsDigit(c) == c \in Range(Digits)

\* \s of the line pattern and the characters String.prototype.trim removes
IsSpace(c) == c \in {" ", "\t", "\r", "\n", "\f"}

\* [\w.-] of the line pattern
IsKeyChar(c) == IsUpper(c) \/ IsLower(c) \/ IsDigit(c) \/ c \in {"_", ".", "-"}

LowerChar(c) ==
    IF IsUpper(c)
    THEN LowerLetters[CHOOSE i \in DOMAIN UpperLetters : UpperLetters[i] = c]
    ELSE c

UpperChar(c) ==
    IF IsLower(c)
    THEN UpperLetters[CHOOSE i \in DOMAIN LowerLetters : LowerLetters[i] = c]
    ELSE c

toLowerCase(s) == [i \in 1..Len(s) |-> LowerChar(s[i])]
toUpperCase(s) == [i \in 1..Len(s) |-> UpperChar(s[i])]

\* normalizeKey, were underscores stripped as well
normalizeKey_StripsUnderscores(k) ==
    LET kept == SelectSeq(k, LAMBDA c : c # "_")
    IN  [i \in 1..Len(kept) |-> LowerChar(kept[i])]

\* const normalizeKey = (k: string) => k.toLowerCase();
normalizeKey(k) == toLowerCase(k)

RECURSIVE TrimStart(_)
TrimStart(s) ==
    IF Len(s) > 0 /\ IsSpace(s[1]) THEN TrimStart(Tail(s)) ELSE s

RECURSIVE TrimEnd(_)
TrimEnd(s) ==
    IF Len(s) > 0 /\ IsSpace(s[Len(s)])
    THEN TrimEnd(SubSeq(s, 1, Len(s) - 1))
    ELSE s

\* String.prototype.trim
trim(s) == TrimEnd(TrimStart(s))

\* The least of a non-empty set of positions
First(hits) == CHOOSE i \in hits : \A j \in hits : i <= j

\* String.prototype.split(sep) for a one-character separator: at least one
\* segment, empty segments kept; the segments of s from position i on
RECURSIVE SplitFrom(_, _, _)
SplitFrom(s, sep, i) ==
    LET hits == {j \in i..Len(s) : s[j] = sep}
    IN  IF hits = {} THEN <<SubSeq(s, i, Len(s))>>
        ELSE <<SubSeq(s, i, First(hits) - 1)>> \o SplitFrom(s, sep, First(hits) + 1)

split(s, sep) == SplitFrom(s, sep, 1)

\* Array.prototype.join(sep) on an array of strings
RECURSIVE join(_, _)
join(l, sep) ==
    IF Len(l) = 0 THEN <<>>
    ELSE IF Len(l) = 1 THEN l[1]
    ELSE l[1] \o sep \o join(Tail(l), sep)

\* text.split(/\r?\n/): split at "\n", the "\r" right before it belonging to
\* the separator
DropCR(seg) ==
    IF Len(seg) > 0 /\ seg[Len(seg)] = "\r"
    THEN SubSeq(seg, 1, Len(seg) - 1)
    ELSE seg

RECURSIVE SplitLinesFrom(_, _)
SplitLinesFrom(s, i) ==
    LET hits == {j \in i..Len(s) : s[j] = "\n"}
    IN  IF hits = {} THEN <<SubSeq(s, i, Len(s))>>
        ELSE <<DropCR(SubSeq(s, i, First(hits) - 1))>>
             \o SplitLinesFrom(s, First(hits) + 1)

SplitLines(text) == SplitLinesFrom(text, 1)

-----------------------------------------------------------------------------
\* JavaScript values

Undefined == [t |-> "undefined"]
Str(s)    == [t |-> "str", s |-> s]
Num(n)    == [t |-> "num", n |-> n]
Bool(b)   == [t |-> "bool", b |-> b]
List(l)   == [t |-> "list", l |-> l]
Fn(name)  == [t |-> "fn", f |-> name]

IsDef(v) == v.t # "undefined"

\* Number.prototype.toString for an integer
RECURSIVE NatToStr(_)
NatToStr(n) ==
    IF n < 10 THEN <<Digits[n + 1]>>
    ELSE NatToStr(n \div 10) \o <<Digits[(n % 10) + 1]>>

IntToStr(n) == IF n < 0 THEN <<"-">> \o NatToStr(0 - n) ELSE NatToStr(n)

\* String(v), and the `${v}` of a template literal
String(v) ==
    CASE v.t = "str"  -> v.s
      [] v.t = "num"  -> IF "inf" \in DOMAIN v
                         THEN (IF v.negative THEN <<"-">> ELSE <<>>)
                              \o <<"I","n","f","i","n","i","t","y">>
                         ELSE IntToStr(v.n)
      [] v.t = "bool" -> IF v.b THEN <<"t","r","u","e">>
                                ELSE <<"f","a","l","s","e">>
      [] v.t = "list" -> join(v.l, <<",">>)
      [] v.t = "undefined" -> <<"u","n","d","e","f","i","n","e","d">>
      [] OTHER -> <<"f","u","n","c","t","i","o","n">>

-----------------------------------------------------------------------------
\* Objects used as maps: sequences of [k, v] entries, keys distinct

Keys(o) == [i \in 1..Len(o) |-> o[i].k]
KeySet(o) == {o[i].k : i \in 1..Len(o)}
HasOwn(o, k) == k \in KeySet(o)

IndexOf(o, k) == CHOOSE i \in 1..Len(o) : o[i].k = k

\* The key an assignment hands to the setter Object.prototype.__proto__
ProtoKey == <<"_","_","p","r","o","t","o","_","_">>

\* Put, were the first value written to win
Put_KeepsFirst(o, k, v) ==
    IF HasOwn(o, k) THEN o ELSE Append(o, [k |-> k, v |-> v])

\* o[k] = v on an object literal: an existing key keeps its position; the
\* key __proto__ goes to the inherited setter, which creates no own property
\* (it ignores a string, number or boolean, and takes an array as the new
\* prototype)
Put(o, k, v) ==
    IF k = ProtoKey THEN o
    ELSE IF HasOwn(o, k)
    THEN [o EXCEPT ![IndexOf(o, k)] = [k |-> k, v |-> v]]
    ELSE Append(o, [k |-> k, v |-> v])

\* delete o[k]
Delete(o, k) == SelectSeq(o, LAMBDA e : e.k # k)

\* The own property o[k]; Undefined when there is none
GetOwn(o, k) == IF HasOwn(o, k) THEN o[IndexOf(o, k)].v ELSE Undefined

\* The names every object inherits from Object.prototype
ObjectPrototypeNames ==
    { <<"c","o","n","s","t","r","u","c","t","o","r">>,
      <<"h","a","s","O","w","n","P","r","o","p","e","r","t","y">>,
      <<"i","s","P","r","o","t","o","t","y","p","e","O","f">>,
      <<"p","r","o","p","e","r","t","y","I","s","E","n","u","m","e","r","a","b","l","e">>,
      <<"t","o","L","o","c","a","l","e","S","t","r","i","n","g">>,
      <<"t","o","S","t","r","i","n","g">>,
      <<"v","a","l","u","e","O","f">>,
      <<"_","_","p","r","o","t","o","_","_">>,
      <<"_","_","d","e","f","i","n","e","G","e","t","t","e","r","_","_">>,
      <<"_","_","d","e","f","i","n","e","S","e","t","t","e","r","_","_">>,
      <<"_","_","l","o","o","k","u","p","G","e","t","t","e","r","_","_">>,
      <<"_","_","l","o","o","k","u","p","S","e","t","t","e","r","_","_">> }

\* `k in o` for an object literal: own or inherited
In(o, k) == HasOwn(o, k) \/ k \in ObjectPrototypeNames

\* The property read o[k]: own, else inherited, else undefined
GetProp(o, k) ==
    IF HasOwn(o, k) THEN GetOwn(o, k)
    ELSE IF k \in ObjectPrototypeNames THEN Fn(k)
    ELSE Undefined

\* FindByNorm, were the first entry taken when no key matches
FindByNorm_FirstWhenNone(o, norm) ==
    LET hits == {i \in 1..Len(o) : normalizeKey(o[i].k) = norm}
    IN  IF hits = {} THEN (IF Len(o) > 0 THEN <<o[1]>> ELSE <<>>)
        ELSE <<o[First(hits)]>>

\* Object.entries(o).find(([k]) => normalizeKey(k) === norm): the first entry
\* in enumeration order whose key lowercases to norm, as a sequence of zero
\* or one entry
FindByNorm(o, norm) ==
    LET hits == {i \in 1..Len(o) : normalizeKey(o[i].k) = norm}
    IN  IF hits = {} THEN <<>> ELSE <<o[First(hits)]>>

\* The first schema entry whose declared name is prop, as a sequence of zero
\* or one entry
FindByName(opts, prop) ==
    LET hits == {i \in 1..Len(opts) : opts[i].v.name = prop}
    IN  IF hits = {} THEN <<>> ELSE <<opts[First(hits)]>>

-----------------------------------------------------------------------------
\* loadEnvFiles: finding the files

NoFile == [exists |-> FALSE]
File(text) == [exists |-> TRUE, text |-> text]

\* join(base, name): the candidate path of a search path and a file name
Candidate(base, name) == <<base, name>>

\* existsSync(candidate)
existsSync(files, candidate) == files[candidate].exists

\* The inner loop `for (const name of this.config.fileNames)` from name j on:
\* every existing candidate is pushed; without merge the loop breaks at the
\* first one
RECURSIVE ScanNames(_, _, _, _, _)
ScanNames(cfg, files, base, j, found) ==
    IF j > Len(cfg.fileNames) THEN found
    ELSE LET candidate == Candidate(base, cfg.fileNames[j])
         IN  IF existsSync(files, candidate)
             THEN IF ~cfg.merge
                  THEN Append(found, candidate)
                  ELSE ScanNames(cfg, files, base, j + 1, Append(found, candidate))
             ELSE ScanNames(cfg, files, base, j + 1, found)

\* ScanPaths, were the outer loop to go on after a file was found
RECURSIVE ScanPaths_NoBreak(_, _, _, _)
ScanPaths_NoBreak(cfg, files, i, found) ==
    IF i > Len(cfg.searchPaths) THEN found
    ELSE ScanPaths_NoBreak(cfg, files, i + 1,
                           ScanNames(cfg, files, cfg.searchPaths[i], 1, found))

\* The outer loop `for (const base of searchList)` from path i on, with
\* `if (filesInOrder.length && !this.config.merge) break;`
RECURSIVE ScanPaths(_, _, _, _)
ScanPaths(cfg, files, i, found) ==
    IF i > Len(cfg.searchPaths) THEN found
    ELSE LET after == ScanNames(cfg, files, cfg.searchPaths[i], 1, found)
         IN  IF Len(after) > 0 /\ ~cfg.merge
             THEN after
             ELSE ScanPaths(cfg, files, i + 1, after)

FindFiles(cfg, files) == ScanPaths(cfg, files, 1, <<>>)

-----------------------------------------------------------------------------
\* loadEnvFiles: parsing the lines

\* The length of the longest prefix of t made of [\w.-]
RECURSIVE KeyPrefixLen(_, _)
KeyPrefixLen(t, n) ==
    IF n < Len(t) /\ IsKeyChar(t[n + 1]) THEN KeyPrefixLen(t, n + 1) ELSE n

\* `.` of the pattern: anything but a line terminator
HasLineTerminator(s) == \E i \in 1..Len(s) : s[i] \in {"\n", "\r"}

\* t.match(/^([\w.-]+)\s*=\s*(.*)$/): ok, m[1] and m[2]
MatchLine(t) ==
    LET n     == KeyPrefixLen(t, 0)
        after == TrimStart(SubSeq(t, n + 1, Len(t)))
        rest  == TrimStart(SubSeq(after, 2, Len(after)))
    IN  IF n > 0 /\ Len(after) > 0 /\ after[1] = "=" /\ ~HasLineTerminator(rest)
        THEN [ok |-> TRUE, key |-> SubSeq(t, 1, n), value |-> rest]
        ELSE [ok |-> FALSE]

IsQuote(c) == c \in {"'", "\""}

\* StripQuotes, were quotes kept
StripQuotes_Keep(s) == s

\* m[2].replace(/^['"]|['"]$/g, ''): a quote at the start is removed, and a
\* quote at the end of what is left is removed
StripQuotes(s) ==
    LET a == IF Len(s) > 0 /\ IsQuote(s[1]) THEN Tail(s) ELSE s
    IN  IF Len(a) > 0 /\ IsQuote(a[Len(a)])
        THEN SubSeq(a, 1, Len(a) - 1)
        ELSE a

\* The body of `for (const [i, line] of lines.entries())` for line number
\* i + 1 = n of `file`; st holds acc, seen and dups
ParseLine(st, line, n, file, debug) ==
    LET t == trim(line)
    IN  IF Len(t) = 0 \/ t[1] = "#" THEN st
        ELSE LET m == MatchLine(t)
             IN  IF ~m.ok THEN st
                 ELSE LET key     == m.key
                          normKey == normalizeKey(key)
                      IN  [acc  |-> Put(st.acc, key, Str(trim(StripQuotes(m.value)))),
                           seen |-> Put(st.seen, normKey, Num(n)),
                           dups |-> IF IsDef(GetProp(st.seen, normKey)) /\ debug
                                    THEN Append(st.dups,
                                                [key    |-> key,
                                                 first  |-> GetProp(st.seen, normKey),
                                                 second |-> n,
                                                 file   |-> file])
                                    ELSE st.dups]

RECURSIVE ParseLines(_, _, _, _, _)
ParseLines(st, lines, n, file, debug) ==
    IF n > Len(lines) THEN st
    ELSE ParseLines(ParseLine(st, lines[n], n, file, debug), lines, n + 1, file, debug)

\* readFileSync(file, 'utf8')
readFileSync(files, file) == files[file].text

\* `for (const file of filesInOrder)` from file i on
RECURSIVE ParseFiles(_, _, _, _, _)
ParseFiles(st, files, found, i, debug) ==
    IF i > Len(found) THEN st
    ELSE ParseFiles(ParseLines(st, SplitLines(readFileSync(files, found[i])),
                               1, found[i], debug),
                    files, found, i + 1, debug)

EmptyParse == [acc |-> <<>>, seen |-> <<>>, dups |-> <<>>]

\* The whole of loadEnvFiles: the files found and what parsing them gives
\* (`if (!filesInOrder.length) return {}` is the empty fold)
loadEnvFiles(cfg, files) ==
    LET found == FindFiles(cfg, files)
        st    == ParseFiles(EmptyParse, files, found, 1, cfg.debug)
    IN  [filesInOrder |-> found, acc |-> st.acc, dups |-> st.dups]

-----------------------------------------------------------------------------
\* load: the value of each schema key, from the files or from process.env

\* LoadKey, were process.env to be consulted before the files
LoadKey_EnvFirst(cfg, acc, env, out, key) ==
    LET norm     == normalizeKey(key)
        fromFile == FindByNorm(acc, norm)
        fromProc == FindByNorm(env, norm)
    IN  IF cfg.envFallback /\ Len(fromProc) > 0 /\ IsDef(fromProc[1].v)
        THEN Put(out, key, fromProc[1].v)
        ELSE IF Len(fromFile) > 0 THEN Put(out, key, fromFile[1].v)
        ELSE out

\* LoadKey, were process.env consulted whatever envFallback says
LoadKey_AlwaysFallback(cfg, acc, env, out, key) ==
    LET norm     == normalizeKey(key)
        fromFile == FindByNorm(acc, norm)
        fromProc == FindByNorm(env, norm)
    IN  IF Len(fromFile) > 0 THEN Put(out, key, fromFile[1].v)
        ELSE IF Len(fromProc) > 0 /\ IsDef(fromProc[1].v)
             THEN Put(out, key, fromProc[1].v)
             ELSE out

\* LoadKey, were an empty value in a file to count as no value
LoadKey_EmptyIsAbsent(cfg, acc, env, out, key) ==
    LET norm     == normalizeKey(key)
        fromFile == FindByNorm(acc, norm)
        fromProc == FindByNorm(env, norm)
    IN  IF Len(fromFile) > 0 /\ Len(fromFile[1].v.s) > 0
        THEN Put(out, key, fromFile[1].v)
        ELSE IF cfg.envFallback /\ Len(fromProc) > 0 /\ IsDef(fromProc[1].v)
             THEN Put(out, key, fromProc[1].v)
             ELSE out

\* The body of `for (const key of Object.keys(envOptions))`
LoadKey(cfg, acc, env, out, key) ==
    LET norm     == normalizeKey(key)
        fromFile == FindByNorm(acc, norm)
        fromProc == FindByNorm(env, norm)
    IN  IF Len(fromFile) > 0 THEN Put(out, key, fromFile[1].v)
        ELSE IF cfg.envFallback /\ Len(fromProc) > 0 /\ IsDef(fromProc[1].v)
             THEN Put(out, key, fromProc[1].v)
             ELSE out

RECURSIVE LoadKeys(_, _, _, _, _, _)
LoadKeys(cfg, acc, env, out, keys, i) ==
    IF i > Len(keys) THEN out
    ELSE LoadKeys(cfg, acc, env, LoadKey(cfg, acc, env, out, keys[i]), keys, i + 1)

\* load, after its call of loadEnvFiles
load(cfg, opts, acc, env) == LoadKeys(cfg, acc, env, <<>>, Keys(opts), 1)

-----------------------------------------------------------------------------
\* parse: the built-in conversions

NaN == [t |-> "nan"]

AllDigits(s) == Len(s) > 0 /\ \A i \in 1..Len(s) : IsDigit(s[i])

DigitValue(c) == (CHOOSE i \in DOMAIN Digits : Digits[i] = c) - 1

RECURSIVE DigitsToNat(_, _)
DigitsToNat(s, n) ==
    IF Len(s) = 0 THEN n ELSE DigitsToNat(Tail(s), n * 10 + DigitValue(s[1]))

HexDigits == Digits \o <<"a","b","c","d","e","f">>

\* The digits of a literal with a radix prefix (0x, 0o, 0b, in either case) as
\* lower-case characters, and its radix; radix 0 when t is no such literal
RadixLiteral(t) ==
    LET radix  == IF Len(t) < 3 \/ t[1] # "0" THEN 0
                  ELSE CASE t[2] \in {"x", "X"} -> 16
                         [] t[2] \in {"o", "O"} -> 8
                         [] t[2] \in {"b", "B"} -> 2
                         [] OTHER -> 0
        digits == toLowerCase(SubSeq(t, 3, Len(t)))
        valid  == radix > 0 /\ \A i \in 1..Len(digits) :
                      \E d \in 1..radix : HexDigits[d] = digits[i]
    IN  [radix |-> IF valid THEN radix ELSE 0, digits |-> digits]

RECURSIVE RadixToNat(_, _, _)
RadixToNat(digits, radix, n) ==
    IF Len(digits) = 0 THEN n
    ELSE RadixToNat(Tail(digits), radix,
                    n * radix + (CHOOSE d \in 1..radix : HexDigits[d] = digits[1]) - 1)

\* The number Infinity, with its sign
Infinity(negative) == [t |-> "num", inf |-> TRUE, negative |-> negative]

\* Number, were the empty string not a number
Number_EmptyIsNaN(s) ==
    LET t    == trim(s)
        body == IF Len(t) > 0 /\ t[1] \in {"+", "-"} THEN Tail(t) ELSE t
        lit  == RadixLiteral(t)
    IN  IF Len(t) = 0 THEN NaN
        ELSE IF lit.radix > 0 THEN Num(RadixToNat(lit.digits, lit.radix, 0))
        ELSE IF body = <<"I","n","f","i","n","i","t","y">> THEN Infinity(t[1] = "-")
        ELSE IF ~AllDigits(body) THEN NaN
        ELSE IF t[1] = "-" THEN Num(0 - DigitsToNat(body, 0))
        ELSE Num(DigitsToNat(body, 0))

\* Number(value) of a string: white space is trimmed, the empty string is 0,
\* an unsigned literal with a radix prefix is its value, a signed decimal
\* integer is its value, a signed Infinity is infinite, anything else NaN.
\* (Literals with a fraction or an exponent are not among the values
\* enumerated below.)
Number(s) ==
    LET t    == trim(s)
        body == IF Len(t) > 0 /\ t[1] \in {"+", "-"} THEN Tail(t) ELSE t
        lit  == RadixLiteral(t)
    IN  IF Len(t) = 0 THEN Num(0)
        ELSE IF lit.radix > 0 THEN Num(RadixToNat(lit.digits, lit.radix, 0))
        ELSE IF body = <<"I","n","f","i","n","i","t","y">> THEN Infinity(t[1] = "-")
        ELSE IF ~AllDigits(body) THEN NaN
        ELSE IF t[1] = "-" THEN Num(0 - DigitsToNat(body, 0))
        ELSE Num(DigitsToNat(body, 0))

Truthy == { <<"t","r","u","e">>, <<"1">>, <<"y","e","s">>, <<"o","n">> }
Falsy  == { <<"f","a","l","s","e">>, <<"0">>, <<"n","o">>, <<"o","f","f">> }

Returned(v) == [ok |-> TRUE, v |-> v]
Threw(e)    == [ok |-> FALSE, err |-> e]

\* value.split(',').map((s) => s.trim())
TrimAll(l) == [i \in 1..Len(l) |-> trim(l[i])]

\* parse, were the boolean words matched with their letter case
parse_CaseSensitive(value, type) ==
    CASE type = "number" ->
            LET n == Number(value.s)
            IN  IF n = NaN
                THEN Threw([zod |-> FALSE,
                            fmt |-> "Not a number: ${value}", value |-> value.s])
                ELSE Returned(n)
      [] type = "boolean" ->
            IF value.s \in Truthy THEN Returned(Bool(TRUE))
            ELSE IF value.s \in Falsy THEN Returned(Bool(FALSE))
            ELSE Returned(Bool(Len(value.s) > 0))
      [] type = "strings" -> Returned(List(TrimAll(split(value.s, ","))))
      [] OTHER -> Returned(value)

\* parse(value, type): the value returned or the Error thrown
parse(value, type) ==
    CASE type = "number" ->
            LET n == Number(value.s)
            IN  IF n = NaN
                THEN Threw([zod |-> FALSE,
                            fmt |-> "Not a number: ${value}", value |-> value.s])
                ELSE Returned(n)
      [] type = "boolean" ->
            LET lc == toLowerCase(value.s)
            IN  IF lc \in Truthy THEN Returned(Bool(TRUE))
                ELSE IF lc \in Falsy THEN Returned(Bool(FALSE))
                ELSE Returned(Bool(Len(value.s) > 0))
      [] type = "strings" -> Returned(List(TrimAll(split(value.s, ","))))
      [] OTHER -> Returned(value)

-----------------------------------------------------------------------------
\* The converters a schema can declare.  `transform` and `zodSchema` are the
\* caller's; the model draws them from these representatives.

\* opt.transform(raw)
ApplyTransform(id, raw) ==
    CASE id = "toUpper" -> Returned(Str(toUpperCase(raw.s)))
      [] id = "length"  -> Returned(Num(Len(raw.s)))
      [] OTHER          -> Threw([zod |-> FALSE, fmt |-> "bad value", value |-> raw.s])

\* opt.zodSchema.parse(raw), for z.string().min(3): raw or a ZodError
ApplyZod(id, raw) ==
    IF Len(raw.s) >= 3 THEN Returned(raw)
    ELSE Threw([zod |-> TRUE, fmt |-> "too short", value |-> raw.s])

\* Convert, were the built-in conversion of a declared type to come first
Convert_BuiltInFirst(opt, raw) ==
    IF opt.type # "none" THEN parse(raw, opt.type)
    ELSE IF opt.transform # "none" THEN ApplyTransform(opt.transform, raw)
    ELSE IF opt.zodSchema # "none" THEN ApplyZod(opt.zodSchema, raw)
    ELSE parse(raw, opt.type)

\* The conversion chosen in the try block of validate
Convert(opt, raw) ==
    IF opt.transform # "none" THEN ApplyTransform(opt.transform, raw)
    ELSE IF opt.zodSchema # "none" THEN ApplyZod(opt.zodSchema, raw)
    ELSE parse(raw, opt.type)

-----------------------------------------------------------------------------
\* validate

\* includes, were every value to be found
includes_Always(l, x) == TRUE

\* Array.prototype.includes
includes(l, x) == \E i \in 1..Len(l) : l[i] = x

MissingLine(missing) ==
    [fmt |-> "Missing required: ${missing.join(', ')}", keys |-> missing]

InvalidLine(key, parsed) ==
    [fmt |-> "Invalid '${key}': ${parsed}", key |-> key, value |-> String(parsed)]

CaughtLine(key, err) ==
    IF err.zod
    THEN [fmt |-> "'${key}' zod says it bad${reason ? ': ' + reason : ''}",
          key |-> key, reason |-> err.fmt]
    ELSE [fmt |-> "Error parsing '${key}': ${msg}", key |-> key, msg |-> err]

\* ValidateKey, were a default to go through the conversion like a raw value
ValidateKey_ConvertsDefault(st, env, key, opt) ==
    LET raw  == GetProp(env, key)
        used == IF IsDef(raw) THEN raw
                ELSE IF IsDef(opt.default) THEN Str(String(opt.default))
                ELSE Undefined
    IN  IF ~IsDef(used)
        THEN IF opt.required
             THEN [st EXCEPT !.missing = Append(@, key)]
             ELSE st
        ELSE LET c == Convert(opt, used)
             IN  IF ~c.ok
                 THEN [st EXCEPT !.errors = Append(@, CaughtLine(key, c.err))]
                 ELSE IF IsDef(opt.options) /\ ~includes(opt.options.l, String(c.v))
                      THEN [st EXCEPT !.errors = Append(@, InvalidLine(key, c.v))]
                      ELSE [st EXCEPT !.result = Put(@, key, c.v)]

\* ValidateKey, were a missing required key not to be recorded
ValidateKey_IgnoresRequired(st, env, key, opt) ==
    LET raw == GetProp(env, key)
    IN  IF ~IsDef(raw)
        THEN IF IsDef(opt.default)
             THEN [st EXCEPT !.result = Put(@, key, opt.default)]
             ELSE st
        ELSE LET c == Convert(opt, raw)
             IN  IF ~c.ok
                 THEN [st EXCEPT !.errors = Append(@, CaughtLine(key, c.err))]
                 ELSE IF IsDef(opt.options) /\ ~includes(opt.options.l, String(c.v))
                      THEN [st EXCEPT !.errors = Append(@, InvalidLine(key, c.v))]
                      ELSE [st EXCEPT !.result = Put(@, key, c.v)]

\* ValidateKey, were the allowed values not to be checked
ValidateKey_NoOptionsCheck(st, env, key, opt) ==
    LET raw == GetProp(env, key)
    IN  IF ~IsDef(raw)
        THEN IF IsDef(opt.default)
             THEN [st EXCEPT !.result = Put(@, key, opt.default)]
             ELSE IF opt.required
                  THEN [st EXCEPT !.missing = Append(@, key)]
                  ELSE st
        ELSE LET c == Convert(opt, raw)
             IN  IF ~c.ok
                 THEN [st EXCEPT !.errors = Append(@, CaughtLine(key, c.err))]
                 ELSE [st EXCEPT !.result = Put(@, key, c.v)]

\* ValidateKey, were a key without value to be stored as undefined
ValidateKey_StoresUndefined(st, env, key, opt) ==
    LET raw == GetProp(env, key)
    IN  IF ~IsDef(raw)
        THEN IF IsDef(opt.default)
             THEN [st EXCEPT !.result = Put(@, key, opt.default)]
             ELSE IF opt.required
                  THEN [st EXCEPT !.missing = Append(@, key)]
                  ELSE [st EXCEPT !.result = Put(@, key, Undefined)]
        ELSE LET c == Convert(opt, raw)
             IN  IF ~c.ok
                 THEN [st EXCEPT !.errors = Append(@, CaughtLine(key, c.err))]
                 ELSE IF IsDef(opt.options) /\ ~includes(opt.options.l, String(c.v))
                      THEN [st EXCEPT !.errors = Append(@, InvalidLine(key, c.v))]
                      ELSE [st EXCEPT !.result = Put(@, key, c.v)]

\* The body of `for (const [key, opt] of Object.entries(opts))`; st holds
\* missing, errors and result
ValidateKey(st, env, key, opt) ==
    LET raw == GetProp(env, key)
    IN  IF ~IsDef(raw)
        THEN IF IsDef(opt.default)
             THEN [st EXCEPT !.result = Put(@, key, opt.default)]
             ELSE IF opt.required
                  THEN [st EXCEPT !.missing = Append(@, key)]
                  ELSE st
        ELSE LET c == Convert(opt, raw)
             IN  IF ~c.ok
                 THEN [st EXCEPT !.errors = Append(@, CaughtLine(key, c.err))]
                 ELSE IF IsDef(opt.options) /\ ~includes(opt.options.l, String(c.v))
                      THEN [st EXCEPT !.errors = Append(@, InvalidLine(key, c.v))]
                      ELSE [st EXCEPT !.result = Put(@, key, c.v)]

\* ValidateKeys, were the loop to stop at the first key that fails
RECURSIVE ValidateKeys_FailFast(_, _, _, _)
ValidateKeys_FailFast(st, env, opts, i) ==
    IF i > Len(opts) \/ Len(st.missing) + Len(st.errors) > 0 THEN st
    ELSE ValidateKeys_FailFast(ValidateKey(st, env, opts[i].k, opts[i].v),
                               env, opts, i + 1)

RECURSIVE ValidateKeys(_, _, _, _)
ValidateKeys(st, env, opts, i) ==
    IF i > Len(opts) THEN st
    ELSE ValidateKeys(ValidateKey(st, env, opts[i].k, opts[i].v), env, opts, i + 1)

EmptyValidation == [missing |-> <<>>, errors |-> <<>>, result |-> <<>>]

\* validate(env, opts): the config returned, or the lines of the report
\* thrown after 'Env validation failed:'
validate(env, opts) ==
    LET st     == ValidateKeys(EmptyValidation, env, opts, 1)
        errors == IF Len(st.missing) > 0
                  THEN <<MissingLine(st.missing)>> \o st.errors
                  ELSE st.errors
    IN  IF Len(errors) > 0
        THEN [ok |-> FALSE, lines |-> errors]
        ELSE [ok |-> TRUE, result |-> st.result]

-----------------------------------------------------------------------------
\* createConfigProxy: the get trap

Symbol(d) == [t |-> "symbol", d |-> d]

PassThrough ==
    { <<"t","o","J","S","O","N">>,
      <<"t","o","S","t","r","i","n","g">>,
      <<"v","a","l","u","e","O","f">>,
      <<"c","o","n","s","t","r","u","c","t","o","r">>,
      <<"h","a","s","O","w","n","P","r","o","p","e","r","t","y">>,
      <<"i","s","P","r","o","t","o","t","y","p","e","O","f">>,
      <<"p","r","o","p","e","r","t","y","I","s","E","n","u","m","e","r","a","b","l","e">>,
      <<"t","h","e","n">> }

GetReturn(v) == [kind |-> "return", v |-> v]
GetThrow(prop) ==
    [kind |-> "throw", fmt |-> "Undefined environment key \"${prop}\"", prop |-> prop]

\* ProxyGet, were the case-insensitive lookup to come before the alias lookup
ProxyGet_CaseBeforeAlias(opts, target, prop) ==
    IF prop.t # "str" THEN GetReturn(Undefined)
    ELSE IF prop.s \in PassThrough THEN GetReturn(GetProp(target, prop.s))
    ELSE IF In(target, prop.s) THEN GetReturn(GetProp(target, prop.s))
    ELSE LET alias == FindByName(opts, prop)
             lower == toLowerCase(prop.s)
             ci    == FindByNorm(target, lower)
         IN  IF Len(ci) > 0 THEN GetReturn(GetProp(target, ci[1].k))
             ELSE IF Len(alias) > 0 THEN GetReturn(GetProp(target, alias[1].k))
             ELSE GetThrow(prop.s)

\* ProxyGet, were there no case-insensitive lookup
ProxyGet_NoCaseLookup(opts, target, prop) ==
    IF prop.t # "str" THEN GetReturn(Undefined)
    ELSE IF prop.s \in PassThrough THEN GetReturn(GetProp(target, prop.s))
    ELSE IF In(target, prop.s) THEN GetReturn(GetProp(target, prop.s))
    ELSE LET alias == FindByName(opts, prop)
         IN  IF Len(alias) > 0 THEN GetReturn(GetProp(target, alias[1].k))
             ELSE GetThrow(prop.s)

\* get(target, prop, receiver)
ProxyGet(opts, target, prop) ==
    IF prop.t # "str" THEN GetReturn(Undefined)
    ELSE IF prop.s \in PassThrough THEN GetReturn(GetProp(target, prop.s))
    ELSE IF In(target, prop.s) THEN GetReturn(GetProp(target, prop.s))
    ELSE LET alias == FindByName(opts, prop)
             lower == toLowerCase(prop.s)
             ci    == FindByNorm(target, lower)
         IN  IF Len(alias) > 0 THEN GetReturn(GetProp(target, alias[1].k))
             ELSE IF Len(ci) > 0 THEN GetReturn(GetProp(target, ci[1].k))
             ELSE GetThrow(prop.s)

-----------------------------------------------------------------------------
\* genTemplate

\* The characters of a type name
TypeName(type) ==
    CASE type = "number"  -> <<"n","u","m","b","e","r">>
      [] type = "boolean" -> <<"b","o","o","l","e","a","n">>
      [] type = "strings" -> <<"s","t","r","i","n","g","s">>
      [] OTHER            -> <<"s","t","r","i","n","g">>

\* ' Possible values: ' and ' (required)'
PossibleValues == <<" ","P","o","s","s","i","b","l","e"," ","v","a","l","u","e","s",":"," ">>
RequiredMark   == <<" ","(","r","e","q","u","i","r","e","d",")">>

\* Array.isArray(opt.default) ? opt.default.join(',') : String(opt.default),
\* and '' when there is no default
DefaultValue(opt) == IF IsDef(opt.default) THEN String(opt.default) ELSE <<>>

\* TemplateLines, were a required key written without its default
TemplateLines_RequiredEmpty(key, opt) ==
    LET desc         == IF IsDef(opt.description) /\ Len(opt.description.s) > 0
                        THEN <<"#", " ">> \o opt.description.s ELSE <<>>
        typeInfo     == IF opt.type # "none"
                        THEN <<" ", "[">> \o TypeName(opt.type) \o <<"]">> ELSE <<>>
        optionsInfo  == IF IsDef(opt.options)
                        THEN PossibleValues \o join(opt.options.l, <<",", " ">>)
                        ELSE <<>>
        requiredInfo == IF opt.required THEN RequiredMark ELSE <<>>
        defaultValue == DefaultValue(opt)
        example      == IF Len(defaultValue) > 0 /\ ~opt.required
                        THEN key \o <<"=">> \o defaultValue
                        ELSE key \o <<"=">>
    IN  << trim(desc \o typeInfo \o optionsInfo \o requiredInfo), example, <<>> >>

\* The three lines pushed for one key
TemplateLines(key, opt) ==
    LET desc         == IF IsDef(opt.description) /\ Len(opt.description.s) > 0
                        THEN <<"#", " ">> \o opt.description.s ELSE <<>>
        typeInfo     == IF opt.type # "none"
                        THEN <<" ", "[">> \o TypeName(opt.type) \o <<"]">> ELSE <<>>
        optionsInfo  == IF IsDef(opt.options)
                        THEN PossibleValues \o join(opt.options.l, <<",", " ">>)
                        ELSE <<>>
        requiredInfo == IF opt.required THEN RequiredMark ELSE <<>>
        defaultValue == DefaultValue(opt)
        example      == IF Len(defaultValue) > 0
                        THEN key \o <<"=">> \o defaultValue
                        ELSE key \o <<"=">>
    IN  << trim(desc \o typeInfo \o optionsInfo \o requiredInfo), example, <<>> >>

RECURSIVE TemplateOf(_, _)
TemplateOf(cfg, i) ==
    IF i > Len(cfg) THEN <<>>
    ELSE TemplateLines(cfg[i].k, cfg[i].v) \o TemplateOf(cfg, i + 1)

\* The text genTemplate writes: lines.join('\n')
genTemplate(cfg) == join(TemplateOf(cfg, 1), <<"\n">>)

-----------------------------------------------------------------------------
\* defineEnvOptions(options, meta) and genTemplateFromBlocks (the build of the
\* loader that groups template output)

\* The truthiness of an optional string: neither undefined nor ''
TruthyString(v) == IsDef(v) /\ Len(v.s) > 0

\* defineEnvOptions, were the block's group to replace every group
defineEnvOptions_Overwrites(options, meta) ==
    IF TruthyString(meta)
    THEN [i \in 1..Len(options) |-> [options[i] EXCEPT !.v.group = meta]]
    ELSE options

\* defineEnvOptions(options, meta), meta standing for meta?.group: with a
\* group, every option whose own group is not truthy gets it
defineEnvOptions(options, meta) ==
    IF TruthyString(meta)
    THEN [i \in 1..Len(options) |->
             IF ~TruthyString(options[i].v.group)
             THEN [options[i] EXCEPT !.v.group = meta]
             ELSE options[i]]
    ELSE options

\* The body of `for (const [key, opt] of Object.entries(block))`; st holds
\* lines and currentGroup
BlockKey(st, key, opt) ==
    LET group  == opt.group
        header == TruthyString(group) /\ group # st.currentGroup
        gap    == IF Len(st.lines) > 0 /\ st.lines[Len(st.lines)] # <<>>
                  THEN << <<>> >> ELSE <<>>
        head   == IF header THEN gap \o << <<"#", " ">> \o group.s >> ELSE <<>>
    IN  [lines        |-> st.lines \o head \o TemplateLines(key, opt),
         currentGroup |-> IF header THEN group ELSE st.currentGroup]

RECURSIVE WalkEntries(_, _, _)
WalkEntries(st, block, i) ==
    IF i > Len(block) THEN st
    ELSE WalkEntries(BlockKey(st, block[i].k, block[i].v), block, i + 1)

\* `for (const block of blocks)` from block b on
RECURSIVE WalkBlocks(_, _, _)
WalkBlocks(st, list, b) ==
    IF b > Len(list) THEN st
    ELSE WalkBlocks(WalkEntries(st, list[b], 1), list, b + 1)

\* The text genTemplateFromBlocks writes: lines.join('\n')
genTemplateFromBlocks(list) ==
    join(WalkBlocks([lines |-> <<>>, currentGroup |-> Undefined], list, 1).lines,
         <<"\n">>)

-----------------------------------------------------------------------------
\* The inputs enumerated

MaxKeys   == 2    \* schema keys
MaxFiles  == 2    \* candidate files that exist
MaxWrites == 1    \* assignments and deletions by the caller
MaxLineLen == 5   \* characters of an enumerated line

PORT  == <<"P","O","R","T">>
Port  == <<"P","o","r","t">>
MODE  == <<"M","O","D","E">>
mode  == <<"m","o","d","e">>
ONLY2 == <<"O","N","L","Y","2">>
dev   == <<"d","e","v">>
prod  == <<"p","r","o","d">>

\* Lines joined by "\n"
Text(lines) == join(lines, <<"\n">>)

\* PORT=50 / MODE=dev
Text1 ==
    Text(<< PORT \o <<"=","5","0">>,
            MODE \o <<"=">> \o dev >>)

\* # local / Port = abc\r / MODE= / (blank) / ONLY2='q'
Text2 ==
    Text(<< <<"#"," ","l","o","c","a","l">>,
            Port \o <<" ","="," ","a","b","c","\r">>,
            MODE \o <<"=">>,
            <<>>,
            ONLY2 \o <<"=","'","q","'">> >>)

Texts == {Text1, Text2}

SearchPaths == <<"config", "local">>
FileNames   == <<".env", ".env.override">>

Candidates == {Candidate(SearchPaths[i], FileNames[j]) :
                   i \in DOMAIN SearchPaths, j \in DOMAIN FileNames}

Existing(files) == {c \in Candidates : files[c].exists}

FileSystems ==
    {files \in [Candidates -> {NoFile} \cup {File(x) : x \in Texts}] :
        Cardinality(Existing(files)) <= MaxFiles}

ProcEnvs ==
    { <<>>,
      << [k |-> <<"H","O","M","E">>, v |-> Str(<<"/">>)],
         [k |-> <<"p","o","r","t">>, v |-> Str(<<"7">>)] >>,
      << [k |-> <<"M","O","_","D","E">>, v |-> Str(<<"u">>)],
         [k |-> <<"M","o","d","e">>, v |-> Str(prod)],
         [k |-> MODE, v |-> Str(dev)] >> }

Opt(type, required, default, options, name, transform, zodSchema) ==
    [description |-> Str(<<"d">>), type |-> type, required |-> required,
     default |-> default, options |-> options, name |-> name,
     transform |-> transform, zodSchema |-> zodSchema]

Entry(k, v) == [k |-> k, v |-> v]

\* The option descriptors schemas are made of
Options ==
    { Entry(PORT, Opt("number", TRUE, Undefined, Undefined, Undefined, "none", "none")),
      Entry(PORT, Opt("number", FALSE, Num(80), Undefined, Undefined, "none", "none")),
      Entry(PORT, Opt("none", FALSE, Undefined, Undefined, Undefined, "none", "none")),
      Entry(PORT, Opt("boolean", FALSE, Bool(FALSE), Undefined, Undefined, "none", "none")),
      Entry(PORT, Opt("strings", FALSE, Undefined, Undefined,
                      Str(<<"p","o","r","t","s">>), "none", "none")),
      Entry(PORT, Opt("number", FALSE, Str(<<"x">>), Undefined, Undefined, "toUpper", "none")),
      Entry(PORT, Opt("none", TRUE, Undefined, Undefined, Undefined, "throws", "none")),
      Entry(PORT, Opt("number", FALSE, Undefined, Undefined, Undefined, "none", "min3")),
      Entry(PORT, Opt("boolean", FALSE, Undefined, Undefined, Undefined, "length", "min3")),
      Entry(PORT, Opt("number", FALSE, Undefined, List(<< <<"5","0">> >>),
                      Undefined, "none", "none")),
      Entry(MODE, Opt("none", FALSE, Str(<<"t","e","s","t">>), List(<<dev, prod>>),
                      Undefined, "none", "none")),
      Entry(MODE, Opt("string", TRUE, Undefined, List(<<dev, prod>>),
                      Undefined, "none", "none")),
      Entry(MODE, Opt("none", FALSE, Undefined, Undefined,
                      Str(<<"t","h","e","n">>), "none", "none")),
      Entry(MODE, Opt("none", TRUE, Undefined, Undefined, Undefined, "none", "none")),
      Entry(mode, Opt("none", FALSE, Str(<<"l","o","w">>), Undefined,
                      Str(<<"p","o","r","t">>), "none", "none")) }

\* One-key schemas of plain string keys
PlainSchemas ==
    { << Entry(PORT, Opt("none", FALSE, Undefined, Undefined, Undefined, "none", "none")) >>,
      << Entry(MODE, Opt("none", TRUE, Undefined, Undefined, Undefined, "none", "none")) >>,
      << Entry(ONLY2, Opt("none", FALSE, Undefined, Undefined, Undefined, "none", "none")) >>,
      << Entry(mode, Opt("none", FALSE, Str(<<"l","o","w">>), Undefined,
                         Undefined, "none", "none")) >> }

DistinctKeys(opts) ==
    \A i, j \in 1..Len(opts) : i # j => opts[i].k # opts[j].k

\* A schema: an object literal of one to MaxKeys descriptors
Schemas ==
    UNION {{opts \in [1..n -> Options] : DistinctKeys(opts)} : n \in 1..MaxKeys}

Configs ==
    [searchPaths : {SearchPaths}, fileNames : {FileNames},
     merge : BOOLEAN, debug : BOOLEAN, envFallback : BOOLEAN]

\* The properties read through the proxy
Props ==
    { Str(PORT), Str(<<"p","o","r","t">>), Str(MODE), Str(mode),
      Str(<<"p","o","r","t","s">>), Str(<<"P","O","R","T","S">>),
      Str(<<"t","h","e","n">>), Str(<<"t","o","S","t","r","i","n","g">>),
      Str(<<"t","o","L","o","c","a","l","e","S","t","r","i","n","g">>),
      Str(<<"M","o","d","e">>),
      Str(<<"m","i","s","s","i","n","g">>), Symbol("iterator") }

\* The characters enumerated lines are made of: a key character, the
\* separator, the two quotes, white space and the comment mark
LineChars == {"A", "=", "'", "\"", " ", "#"}

\* Every line of at most n of these characters
Lines(n) == UNION {[1..k -> LineChars] : k \in 0..n}

\* __proto__=A / A=A\rA
SpecialTexts ==
    { ProtoKey \o <<"=","A">>,
      <<"A","=","A","\r","A">> }

\* The file contents parsed: every one-line text, the special ones and the
\* multi-line texts
ParseTexts == Lines(MaxLineLen) \cup SpecialTexts \cup Texts

\* The schema of the runs that vary the file content
ParseSchema ==
    << Entry(<<"A">>, Opt("none", FALSE, Undefined, Undefined, Undefined, "none", "none")) >>

\* The raw values converted
RawValues ==
    { <<"5","0","0","0">>,
      <<"a","b","c">>,
      <<>>,
      <<" ","1","2"," ">>,
      <<"-","3">>,
      <<"+","4">>,
      <<"1","2","a">>,
      <<"0","x","1","F">>,
      <<"0","b","1","0","1">>,
      <<"-","0","x","1","0">>,
      <<"I","n","f","i","n","i","t","y">>,
      <<"-","I","n","f","i","n","i","t","y">>,
      <<"t","r","u","e">>,
      <<"T","R","U","E">>,
      <<"Y","e","s">>,
      <<"o","n">>,
      <<"1">>,
      <<"0">>,
      <<"f","a","l","s","e">>,
      <<"N","o">>,
      <<"O","F","F">>,
      <<"m","a","y","b","e">>,
      <<" ">>,
      <<"a","l","p","h","a",",","b","e","t","a">>,
      <<"a",","," ","b",",",",","c">> }

\* The key of the runs that vary the raw value
VALUE == <<"V","A","L","U","E">>

\* The schemas of those runs: one optional key of each type, with and without
\* a converter of the caller's
ValueSchemas ==
    { << Entry(VALUE, Opt(type, FALSE, Undefined, Undefined, Undefined, transform, "none")) >> :
          type \in {"number", "boolean", "strings", "string", "none"},
          transform \in {"none", "throws"} }

\* A descriptor without description
NoDescription(opt) == [opt EXCEPT !.description = Undefined]

\* The descriptors templates are generated from
TemplateOptions ==
    { Entry(PORT, Opt("number", TRUE, Undefined, Undefined, Undefined, "none", "none")),
      Entry(PORT, Opt("number", FALSE, Num(80), Undefined, Undefined, "none", "none")),
      Entry(PORT, Opt("number", FALSE, Num(0), Undefined, Undefined, "none", "none")),
      Entry(PORT, Opt("boolean", FALSE, Bool(FALSE), Undefined, Undefined, "none", "none")),
      Entry(PORT, Opt("strings", FALSE, List(<< <<"a">>, <<"b">> >>), Undefined,
                      Undefined, "none", "none")),
      Entry(PORT, Opt("strings", FALSE, List(<<>>), Undefined, Undefined, "none", "none")),
      Entry(PORT, Opt("none", TRUE, Str(<<"l","o","w">>), Undefined, Undefined, "none", "none")),
      Entry(PORT, NoDescription(Opt("number", FALSE, Undefined, Undefined,
                                    Undefined, "none", "none"))),
      Entry(PORT, NoDescription(Opt("none", FALSE, Undefined, Undefined,
                                    Undefined, "none", "none"))),
      Entry(MODE, Opt("none", FALSE, Str(dev), List(<<dev, prod>>),
                      Undefined, "none", "none")),
      Entry(MODE, Opt("none", FALSE, Str(<<"'","q","'">>), Undefined,
                      Undefined, "none", "none")),
      Entry(MODE, Opt("none", FALSE, Str(<<" ","x">>), Undefined,
                      Undefined, "none", "none")),
      Entry(MODE, Opt("none", FALSE, Str(<<>>), Undefined, Undefined, "none", "none")),
      Entry(MODE, Opt("string", TRUE, Undefined, List(<<dev, prod>>),
                      Undefined, "none", "none")),
      Entry(mode, Opt("none", FALSE, Str(<<"l","o","w">>), Undefined,
                      Undefined, "none", "none")) }

\* A schema handed to genTemplate: one to MaxKeys of these descriptors
TemplateSchemas ==
    UNION {{opts \in [1..n -> TemplateOptions] : DistinctKeys(opts)} : n \in 1..MaxKeys}

\* The file genTemplate writes, which createConfig then finds
TemplateFile == Candidate(SearchPaths[1], FileNames[1])

\* The properties the caller assigns or deletes, and the value assigned
WriteNames  == { PORT, MODE, <<"e","x","t","r","a">> }
WriteValues == { Str(<<"w">>) }

\* An option descriptor with a group of its own
Grouped(e, group) ==
    Entry(e.k, [description |-> e.v.description, type |-> e.v.type,
                required |-> e.v.required, default |-> e.v.default,
                options |-> e.v.options, name |-> e.v.name,
                transform |-> e.v.transform, zodSchema |-> e.v.zodSchema,
                group |-> group])

\* The block lists handed to genTemplateFromBlocks: one block of two options,
\* or that block and a second one; every option with no group, the empty
\* group or a group of its own, every block with or without a block-level
\* group.  A block is the options as written, the object defineEnvOptions
\* works on, the group of its `meta`, and whether defineEnvOptions ran.
BlockLists ==
    LET Groups == {Undefined, Str(<<>>), Str(<<"A">>), Str(<<"B">>)}
        Metas  == {Undefined, Str(<<>>), Str(<<"A">>), Str(<<"C">>)}
        Block(options, meta) ==
            [declared |-> options, options |-> options, meta |-> meta,
             defined |-> FALSE]
        One(g1, g2) ==
            << Grouped(Entry(PORT, Opt("number", FALSE, Num(80), Undefined,
                                       Undefined, "none", "none")), g1),
               Grouped(Entry(MODE, Opt("none", FALSE, Str(dev), List(<<dev, prod>>),
                                       Undefined, "none", "none")), g2) >>
        Two(g3, g4) ==
            << Grouped(Entry(ONLY2, Opt("none", TRUE, Undefined, Undefined,
                                        Undefined, "none", "none")), g3),
               Grouped(Entry(mode, NoDescription(Opt("none", FALSE, Undefined, Undefined,
                                                     Undefined, "none", "none"))), g4) >>
    IN  { << Block(One(g1, g2), m1) >> : g1 \in Groups, g2 \in Groups, m1 \in Metas }
        \cup
        { << Block(One(g[1], g[2]), m[1]), Block(Two(g[3], g[4]), m[2]) >> :
              g \in [1..4 -> Groups], m \in [1..2 -> Metas] }

-----------------------------------------------------------------------------
\* The state machine

NoGet == [kind |-> "none"]

\* Runs that vary the files: a schema of one plain key, any file system and
\* any configuration
FileRuns ==
    /\ envOptions \in PlainSchemas
    /\ config \in Configs
    /\ fs \in FileSystems

\* Runs that vary the schema: any schema, at most the first candidate file
SchemaRuns ==
    /\ envOptions \in Schemas
    /\ config \in {c \in Configs : ~c.merge /\ ~c.debug}
    /\ fs \in {files \in FileSystems :
                  Existing(files) \subseteq {Candidate(SearchPaths[1], FileNames[1])}}

Init ==
    /\ FileRuns \/ SchemaRuns
    /\ procEnv \in ProcEnvs
    /\ pc = "start"
    /\ filesInOrder = <<>>
    /\ fileEntries = <<>>
    /\ dups = <<>>
    /\ merged = <<>>
    /\ result = <<>>
    /\ thrown = <<>>
    /\ lastGet = NoGet
    /\ writes = <<>>
    /\ blocks = <<>>

\* load calls this.loadEnvFiles()
LoadEnvFiles ==
    /\ pc = "start"
    /\ LET r == loadEnvFiles(config, fs)
       IN  /\ filesInOrder' = r.filesInOrder
           /\ fileEntries' = r.acc
           /\ dups' = r.dups
    /\ pc' = "files"
    /\ UNCHANGED <<envOptions, config, fs, procEnv, merged, result, thrown, lastGet, writes, blocks>>

\* the rest of load
Load ==
    /\ pc = "files"
    /\ merged' = load(config, envOptions, fileEntries, procEnv)
    /\ pc' = "loaded"
    /\ UNCHANGED <<envOptions, config, fs, procEnv, filesInOrder, fileEntries,
                   dups, result, thrown, lastGet, writes, blocks>>

\* loader.validate(merged, envOptions): createConfig returns or throws
Validate ==
    /\ pc = "loaded"
    /\ LET r == validate(merged, envOptions)
       IN  IF r.ok
           THEN /\ result' = r.result
                /\ thrown' = <<>>
                /\ pc' = "returned"
           ELSE /\ result' = <<>>
                /\ thrown' = r.lines
                /\ pc' = "failed"
    /\ UNCHANGED <<envOptions, config, fs, procEnv, filesInOrder, fileEntries,
                   dups, merged, lastGet, writes, blocks>>

\* createConfig: load, then validate
Next == LoadEnvFiles \/ Load \/ Validate

Spec == Init /\ [][Next]_vars

\* a property read on the object createConfigProxy returned
Get ==
    /\ pc = "returned"
    /\ \E prop \in Props :
          lastGet' = [prop |-> prop, out |-> ProxyGet(envOptions, result, prop)]
    /\ UNCHANGED <<envOptions, config, fs, procEnv, pc, filesInOrder, fileEntries,
                   dups, merged, result, thrown, writes, blocks>>

InitProxy == Init /\ SchemaRuns

\* createConfigProxy: createConfig, then reads through the proxy
NextProxy == LoadEnvFiles \/ Load \/ Validate \/ Get

SpecProxy == InitProxy /\ [][NextProxy]_vars

\* Runs that vary the content of the one file found
InitParse ==
    /\ envOptions = ParseSchema
    /\ config = [searchPaths |-> SearchPaths, fileNames |-> FileNames,
                 merge |-> FALSE, debug |-> FALSE, envFallback |-> FALSE]
    /\ \E text \in ParseTexts :
          fs = [c \in Candidates |->
                   IF c = Candidate(SearchPaths[1], FileNames[1])
                   THEN File(text) ELSE NoFile]
    /\ procEnv = <<>>
    /\ pc = "start"
    /\ filesInOrder = <<>>
    /\ fileEntries = <<>>
    /\ dups = <<>>
    /\ merged = <<>>
    /\ result = <<>>
    /\ thrown = <<>>
    /\ lastGet = NoGet
    /\ writes = <<>>
    /\ blocks = <<>>

SpecParse == InitParse /\ [][Next]_vars

\* Runs that vary the raw value of the one schema key: it comes from
\* process.env, or from the line VALUE=<raw> of the one file found
InitValues ==
    /\ envOptions \in ValueSchemas
    /\ config = [searchPaths |-> SearchPaths, fileNames |-> FileNames,
                 merge |-> FALSE, debug |-> FALSE, envFallback |-> TRUE]
    /\ \E raw \in RawValues :
          \/ /\ procEnv = << Entry(VALUE, Str(raw)) >>
             /\ fs = [c \in Candidates |-> NoFile]
          \/ /\ procEnv = <<>>
             /\ fs = [c \in Candidates |->
                         IF c = Candidate(SearchPaths[1], FileNames[1])
                         THEN File(VALUE \o <<"=">> \o raw) ELSE NoFile]
    /\ pc = "start"
    /\ filesInOrder = <<>>
    /\ fileEntries = <<>>
    /\ dups = <<>>
    /\ merged = <<>>
    /\ result = <<>>
    /\ thrown = <<>>
    /\ lastGet = NoGet
    /\ writes = <<>>
    /\ blocks = <<>>

SpecValues == InitValues /\ [][Next]_vars

\* Runs that generate a template of the schema and then load it
InitTemplate ==
    /\ envOptions \in TemplateSchemas
    /\ config = [searchPaths |-> SearchPaths, fileNames |-> FileNames,
                 merge |-> FALSE, debug |-> FALSE, envFallback |-> FALSE]
    /\ fs = [c \in Candidates |-> NoFile]
    /\ procEnv = <<>>
    /\ pc = "template"
    /\ filesInOrder = <<>>
    /\ fileEntries = <<>>
    /\ dups = <<>>
    /\ merged = <<>>
    /\ result = <<>>
    /\ thrown = <<>>
    /\ lastGet = NoGet
    /\ writes = <<>>
    /\ blocks = <<>>

\* EnvLoader.genTemplate(envOptions, file): writeFileSync(file, text, 'utf8')
GenTemplate ==
    /\ pc = "template"
    /\ fs' = [fs EXCEPT ![TemplateFile] = File(genTemplate(envOptions))]
    /\ pc' = "start"
    /\ UNCHANGED <<envOptions, config, procEnv, filesInOrder, fileEntries, dups,
                   merged, result, thrown, lastGet, writes, blocks>>

\* genTemplate, then createConfig with the same schema
NextTemplate == GenTemplate \/ LoadEnvFiles \/ Load \/ Validate

SpecTemplate == InitTemplate /\ [][NextTemplate]_vars

\* CallerAssign, were the config frozen
CallerAssign_Frozen(target, name, v) == target

\* config[name] = v on the object createConfig returned, or through the
\* proxy, whose handler has no `set` trap: an ordinary assignment on the
\* object validate built
CallerAssign(target, name, v) == Put(target, name, v)

\* delete config[name], likewise (the handler has no `deleteProperty` trap)
CallerDelete(target, name) == Delete(target, name)

SetWrite(name, v) == [op |-> "set", name |-> name, v |-> v]
DeleteWrite(name) == [op |-> "delete", name |-> name]

\* the caller assigns a property of the config
Assign ==
    /\ pc = "returned"
    /\ Len(writes) < MaxWrites
    /\ \E name \in WriteNames, v \in WriteValues :
          /\ result' = CallerAssign(result, name, v)
          /\ writes' = Append(writes, SetWrite(name, v))
    /\ UNCHANGED <<envOptions, config, fs, procEnv, pc, filesInOrder, fileEntries,
                   dups, merged, thrown, lastGet, blocks>>

\* the caller deletes a property of the config
DeleteProperty ==
    /\ pc = "returned"
    /\ Len(writes) < MaxWrites
    /\ \E name \in WriteNames :
          /\ result' = CallerDelete(result, name)
          /\ writes' = Append(writes, DeleteWrite(name))
    /\ UNCHANGED <<envOptions, config, fs, procEnv, pc, filesInOrder, fileEntries,
                   dups, merged, thrown, lastGet, blocks>>

\* The schemas of the runs in which the caller writes
CallerSchemas ==
    { << Entry(PORT, Opt("none", FALSE, Undefined, Undefined, Undefined, "none", "none")) >>,
      << Entry(PORT, Opt("number", FALSE, Num(80), Undefined, Undefined, "none", "none")),
         Entry(MODE, Opt("none", TRUE, Undefined, Undefined, Undefined, "none", "none")) >>,
      << Entry(MODE, Opt("none", FALSE, Str(<<"t","e","s","t">>), List(<<dev, prod>>),
                         Undefined, "none", "none")),
         Entry(mode, Opt("none", FALSE, Str(<<"l","o","w">>), Undefined,
                         Str(<<"p","o","r","t">>), "none", "none")) >> }

\* Runs in which the caller writes: one of these schemas, no process.env
InitCaller ==
    /\ InitProxy
    /\ envOptions \in CallerSchemas
    /\ ~config.envFallback
    /\ procEnv = <<>>

\* createConfig or createConfigProxy, then the caller's reads and writes
NextCaller == LoadEnvFiles \/ Load \/ Validate \/ Get \/ Assign \/ DeleteProperty

SpecCaller == InitCaller /\ [][NextCaller]_vars

\* Runs that define option blocks and generate a grouped template of them
InitBlocks ==
    /\ blocks \in BlockLists
    /\ envOptions = <<>>
    /\ config = [searchPaths |-> SearchPaths, fileNames |-> FileNames,
                 merge |-> FALSE, debug |-> FALSE, envFallback |-> FALSE]
    /\ fs = [c \in Candidates |-> NoFile]
    /\ procEnv = <<>>
    /\ pc = "define"
    /\ filesInOrder = <<>>
    /\ fileEntries = <<>>
    /\ dups = <<>>
    /\ merged = <<>>
    /\ result = <<>>
    /\ thrown = <<>>
    /\ lastGet = NoGet
    /\ writes = <<>>

\* the caller passes the next block through defineEnvOptions(options, meta),
\* which sets the groups on the option objects themselves
DefineEnvOptions ==
    /\ pc = "define"
    /\ \E b \in 1..Len(blocks) :
          /\ ~blocks[b].defined
          /\ \A a \in 1..(b - 1) : blocks[a].defined
          /\ blocks' = [blocks EXCEPT
                            ![b].options = defineEnvOptions(@, blocks[b].meta),
                            ![b].defined = TRUE]
    /\ UNCHANGED <<envOptions, config, fs, procEnv, pc, filesInOrder, fileEntries,
                   dups, merged, result, thrown, lastGet, writes>>

\* EnvLoader.genTemplateFromBlocks(blocks, file)
GenTemplateFromBlocks ==
    /\ pc = "define"
    /\ \A b \in 1..Len(blocks) : blocks[b].defined
    /\ fs' = [fs EXCEPT ![TemplateFile] =
                  File(genTemplateFromBlocks([b \in 1..Len(blocks) |-> blocks[b].options]))]
    /\ pc' = "written"
    /\ UNCHANGED <<envOptions, config, procEnv, filesInOrder, fileEntries, dups,
                   merged, result, thrown, lastGet, writes, blocks>>

NextBlocks == DefineEnvOptions \/ GenTemplateFromBlocks

SpecBlocks == InitBlocks /\ [][NextBlocks]_vars

-----------------------------------------------------------------------------
\* Vocabulary of the properties

Finished == pc \in {"returned", "failed"}
AfterLoad == pc \in {"loaded", "returned", "failed"}

SchemaIndex == 1..Len(envOptions)
KeyOf(i) == envOptions[i].k
OptOf(i) == envOptions[i].v

\* The entries of a map whose key equals `key` but for letter case
Matching(o, key) == {i \in 1..Len(o) : normalizeKey(o[i].k) = normalizeKey(key)}

\* No raw value is found for the key: no parsed file key matches it and,
\* with envFallback on, no process.env key matches it
NoRawValue(key) ==
    /\ Matching(fileEntries, key) = {}
    /\ config.envFallback => Matching(procEnv, key) = {}

\* The report line names the key
LineNames(line, key) ==
    IF "keys" \in DOMAIN line THEN key \in Range(line.keys) ELSE line.key = key

IsMissingLine(line) == "keys" \in DOMAIN line

\* The candidates in discovery order: searchPaths outer, fileNames inner
NumCandidates == Len(config.searchPaths) * Len(config.fileNames)
CandidateAt(r) ==
    Candidate(config.searchPaths[((r - 1) \div Len(config.fileNames)) + 1],
              config.fileNames[((r - 1) % Len(config.fileNames)) + 1])

RECURSIVE ExistingFrom(_)
ExistingFrom(r) ==
    IF r > NumCandidates THEN <<>>
    ELSE (IF fs[CandidateAt(r)].exists THEN <<CandidateAt(r)>> ELSE <<>>)
         \o ExistingFrom(r + 1)

DiscoveryOrder == ExistingFrom(1)

\* What parsing one file alone gives
ParseOne(file) ==
    ParseLines(EmptyParse, SplitLines(fs[file].text), 1, file, FALSE).acc

-----------------------------------------------------------------------------
\* C1: a schema key that declares a default and has no raw value (no file key
\* matches it and, with envFallback on, no process.env key matches it) causes
\* no error, and the config createConfig returns holds exactly the declared
\* default, unconverted, whatever the key's type, options or converter.
C1_DefaultUnchanged ==
    Finished =>
        \A i \in SchemaIndex :
            (IsDef(OptOf(i).default) /\ NoRawValue(KeyOf(i))) =>
                /\ \A n \in 1..Len(thrown) : ~LineNames(thrown[n], KeyOf(i))
                /\ pc = "returned" =>
                      /\ HasOwn(result, KeyOf(i))
                      /\ GetOwn(result, KeyOf(i)) = OptOf(i).default

\* A number-typed key with a converter and a string default, without a raw
\* value, was returned with its default
C1_Witness ==
    /\ pc = "returned"
    /\ \E i \in SchemaIndex :
          /\ OptOf(i).type = "number"
          /\ OptOf(i).transform # "none"
          /\ OptOf(i).default = Str(<<"x">>)
          /\ NoRawValue(KeyOf(i))
          /\ GetOwn(result, KeyOf(i)) = Str(<<"x">>)

\* C2: a required schema key without raw value and without default makes
\* createConfig fail, and the report names the key.
C2_MissingRequiredFails ==
    Finished =>
        \A i \in SchemaIndex :
            (OptOf(i).required /\ ~IsDef(OptOf(i).default) /\ NoRawValue(KeyOf(i))) =>
                /\ pc = "failed"
                /\ \E n \in 1..Len(thrown) : LineNames(thrown[n], KeyOf(i))

C2_Witness ==
    /\ pc = "failed"
    /\ \E i \in SchemaIndex :
          /\ OptOf(i).required
          /\ ~IsDef(OptOf(i).default)
          /\ NoRawValue(KeyOf(i))
          /\ LineNames(thrown[1], KeyOf(i))

\* The ways a key fails, read off the merged map
FailsMissing(i) ==
    ~HasOwn(merged, KeyOf(i)) /\ ~IsDef(OptOf(i).default) /\ OptOf(i).required

FailsConversion(i) ==
    HasOwn(merged, KeyOf(i)) /\ ~Convert(OptOf(i), GetOwn(merged, KeyOf(i))).ok

FailsAllowed(i) ==
    /\ HasOwn(merged, KeyOf(i))
    /\ Convert(OptOf(i), GetOwn(merged, KeyOf(i))).ok
    /\ IsDef(OptOf(i).options)
    /\ String(Convert(OptOf(i), GetOwn(merged, KeyOf(i))).v) \notin Range(OptOf(i).options.l)

MissingKeys == {i \in SchemaIndex : FailsMissing(i)}
OtherFailing == {i \in SchemaIndex : FailsConversion(i) \/ FailsAllowed(i)}

\* C3: validate goes through every schema key before failing: the report
\* names every failing key, one message per line, the missing-required line
\* (if any) first whatever the schema order; a config is returned only when
\* no key failed.
C3_AllErrorsReported ==
    Finished =>
        /\ (pc = "returned") <=> (MissingKeys \cup OtherFailing = {})
        /\ pc = "failed" =>
              /\ \A i \in MissingKeys \cup OtherFailing :
                    \E n \in 1..Len(thrown) : LineNames(thrown[n], KeyOf(i))
              /\ \A n \in 1..Len(thrown) : IsMissingLine(thrown[n]) => n = 1
              /\ (MissingKeys # {}) <=> IsMissingLine(thrown[1])
              /\ \A i \in OtherFailing :
                    Cardinality({n \in 1..Len(thrown) :
                        ~IsMissingLine(thrown[n]) /\ thrown[n].key = KeyOf(i)}) = 1
              /\ Len(thrown) = Cardinality(OtherFailing)
                               + (IF MissingKeys # {} THEN 1 ELSE 0)

\* A key that fails its check comes first in the schema, a missing required
\* key second; the report holds both, the missing-required line first
C3_Witness ==
    /\ pc = "failed"
    /\ Len(envOptions) >= 2
    /\ 1 \in OtherFailing
    /\ 2 \in MissingKeys
    /\ Len(thrown) = 2
    /\ IsMissingLine(thrown[1])
    /\ thrown[2].key = KeyOf(1)

\* C4: without merge, the candidates are scanned search path by search path
\* and file name by file name, the scan stops at the first existing file and
\* only that file is parsed: nothing of a later file reaches the result, so a
\* schema key only a later file defines is absent unless process.env or a
\* default supplies it.
C4_FirstMatchOnly ==
    (~config.merge /\ pc # "start") =>
        LET first == IF Len(DiscoveryOrder) = 0 THEN <<>> ELSE <<DiscoveryOrder[1]>>
            only  == IF Len(first) = 0 THEN <<>> ELSE ParseOne(first[1])
        IN  /\ filesInOrder = first
            /\ fileEntries = only
            /\ AfterLoad =>
                  \A i \in SchemaIndex :
                      (/\ Matching(only, KeyOf(i)) = {}
                       /\ ~(config.envFallback /\ Matching(procEnv, KeyOf(i)) # {})) =>
                          /\ ~HasOwn(merged, KeyOf(i))
                          /\ (pc = "returned" /\ ~IsDef(OptOf(i).default)) =>
                                ~HasOwn(result, KeyOf(i))

\* The first search path holds only its second file name, the second search
\* path a file that alone defines ONLY2: the former is the one parsed
C4_Witness ==
    /\ pc = "returned"
    /\ ~config.merge
    /\ ~fs[Candidate(SearchPaths[1], FileNames[1])].exists
    /\ fs[Candidate(SearchPaths[1], FileNames[2])] = File(Text1)
    /\ fs[Candidate(SearchPaths[2], FileNames[1])] = File(Text2)
    /\ filesInOrder = <<Candidate(SearchPaths[1], FileNames[2])>>
    /\ KeyOf(1) = ONLY2
    /\ ~HasOwn(result, ONLY2)

\* The last of the files' own parses, in discovery order, that defines the key
LastDefining(parses, k) ==
    CHOOSE n \in 1..Len(parses) :
        /\ HasOwn(parses[n], k)
        /\ \A m \in 1..Len(parses) : HasOwn(parses[m], k) => m <= n

\* C5: with merge, every existing candidate is parsed in discovery order
\* (searchPaths outer, fileNames inner); a key spelled the same in several
\* files has the value of the last of them, a key of one file keeps it.
C5_MergeLastWins ==
    (config.merge /\ pc # "start") =>
        LET order  == DiscoveryOrder
            parses == [n \in 1..Len(order) |-> ParseOne(order[n])]
        IN  /\ filesInOrder = order
            /\ KeySet(fileEntries) = UNION {KeySet(parses[n]) : n \in 1..Len(parses)}
            /\ \A k \in KeySet(fileEntries) :
                  GetOwn(fileEntries, k) = GetOwn(parses[LastDefining(parses, k)], k)

\* Text1 then Text2: MODE is Text2's (empty), PORT is Text1's, ONLY2 is Text2's
C5_Witness ==
    /\ pc = "files"
    /\ config.merge
    /\ Len(filesInOrder) = 2
    /\ fs[filesInOrder[1]] = File(Text1)
    /\ fs[filesInOrder[2]] = File(Text2)
    /\ GetOwn(fileEntries, MODE) = Str(<<>>)
    /\ GetOwn(fileEntries, PORT) = Str(<<"5","0">>)
    /\ GetOwn(fileEntries, ONLY2) = Str(<<"q">>)

\* C6: load takes a schema key's value from the merged file map whenever a
\* file key matches it; process.env is consulted only when none matches and
\* envFallback is on, and then (no file at all included) its value is used.
C6_FileBeforeEnv ==
    AfterLoad =>
        \A i \in SchemaIndex :
            LET inFiles == Matching(fileEntries, KeyOf(i))
                inEnv   == Matching(procEnv, KeyOf(i))
            IN  IF inFiles # {}
                THEN GetOwn(merged, KeyOf(i)) \in {fileEntries[n].v : n \in inFiles}
                ELSE IF config.envFallback /\ inEnv # {}
                     THEN GetOwn(merged, KeyOf(i)) \in {procEnv[n].v : n \in inEnv}
                     ELSE ~HasOwn(merged, KeyOf(i))

\* No file exists and PORT comes from the process.env key `port`
C6_Witness ==
    /\ pc = "loaded"
    /\ filesInOrder = <<>>
    /\ config.envFallback
    /\ KeyOf(1) = PORT
    /\ GetOwn(merged, PORT) = Str(<<"7">>)

\* The value the conversion of key i gave
Converted(i) == Convert(OptOf(i), GetOwn(merged, KeyOf(i))).v

IsInvalidLine(line) == line.fmt = "Invalid '${key}': ${parsed}"

\* The line carries the allowed values among its interpolated parts
NamesAllowedSet(line, opt) ==
    \E f \in DOMAIN line \ {"fmt"} : line[f] = join(opt.options.l, <<",", " ">>)

\* C7 as stated: a key with allowed values whose converted raw value, as a
\* string, is not among them makes loading fail, with an "invalid value" line
\* naming the key, the offending value and the allowed set.
C7_NamesAllowedSet ==
    Finished =>
        \A i \in SchemaIndex :
            FailsAllowed(i) =>
                /\ pc = "failed"
                /\ \E n \in 1..Len(thrown) :
                      /\ IsInvalidLine(thrown[n])
                      /\ thrown[n].key = KeyOf(i)
                      /\ thrown[n].value = String(Converted(i))
                      /\ NamesAllowedSet(thrown[n], OptOf(i))

\* C7 amended: such a key makes loading fail, with an "invalid value" line
\* naming the key and the offending value (the allowed set is not in it).
C7_InvalidValueReported ==
    Finished =>
        \A i \in SchemaIndex :
            FailsAllowed(i) =>
                /\ pc = "failed"
                /\ \E n \in 1..Len(thrown) :
                      /\ IsInvalidLine(thrown[n])
                      /\ thrown[n].key = KeyOf(i)
                      /\ thrown[n].value = String(Converted(i))
                      /\ ~NamesAllowedSet(thrown[n], OptOf(i))

\* A number-typed key with allowed value 50 has raw value 7
C7_Witness ==
    /\ pc = "failed"
    /\ \E i \in SchemaIndex :
          /\ FailsAllowed(i)
          /\ OptOf(i).type = "number"
          /\ Converted(i) = Num(7)
          /\ \E n \in 1..Len(thrown) :
                IsInvalidLine(thrown[n]) /\ thrown[n].value = <<"7">>

\* C8 as stated: in a returned config every key that declares allowed values
\* and is present holds a value whose string form is one of them, wherever
\* the value came from (file, process.env or default).
C8_AllowedValuesAlways ==
    pc = "returned" =>
        \A i \in SchemaIndex :
            (IsDef(OptOf(i).options) /\ HasOwn(result, KeyOf(i))) =>
                String(GetOwn(result, KeyOf(i))) \in Range(OptOf(i).options.l)

\* C8 amended: in a returned config every key that declares allowed values
\* and got a raw value (from a file or process.env) holds a value whose
\* string form is one of them; a default is stored without the check.
C8_AllowedValuesOfRawValues ==
    pc = "returned" =>
        \A i \in SchemaIndex :
            IsDef(OptOf(i).options) =>
                IF HasOwn(merged, KeyOf(i))
                THEN /\ HasOwn(result, KeyOf(i))
                     /\ String(GetOwn(result, KeyOf(i))) \in Range(OptOf(i).options.l)
                ELSE IsDef(OptOf(i).default) =>
                        GetOwn(result, KeyOf(i)) = OptOf(i).default

\* A key with allowed values has a raw value and is in the returned config
C8_Witness ==
    /\ pc = "returned"
    /\ \E i \in SchemaIndex :
          /\ IsDef(OptOf(i).options)
          /\ HasOwn(merged, KeyOf(i))
          /\ GetOwn(result, KeyOf(i)) = Str(dev)

\* The key's output name: the declared `name`, else the schema key
OutputName(i) == IF IsDef(OptOf(i).name) THEN OptOf(i).name.s ELSE KeyOf(i)

\* C9: every validated value is stored in the returned config under the
\* key's output name: the declared rename when there is one, else the schema
\* key.
C9_StoredUnderOutputName ==
    pc = "returned" =>
        \A i \in SchemaIndex :
            (HasOwn(merged, KeyOf(i)) \/ IsDef(OptOf(i).default)) =>
                /\ HasOwn(result, OutputName(i))
                /\ GetOwn(result, OutputName(i)) =
                      (IF HasOwn(merged, KeyOf(i)) THEN Converted(i)
                                                   ELSE OptOf(i).default)

-----------------------------------------------------------------------------
\* The proxy

HasRead == lastGet # NoGet

\* The schema keys that declare the name p
Aliases(p) == {i \in SchemaIndex : OptOf(i).name = Str(p)}

\* The keys of the config equal to p but for letter case
CaseMatches(p) == {n \in 1..Len(result) : toLowerCase(result[n].k) = toLowerCase(p)}

\* The read of p gave `out` by the order: exact match, declared name,
\* case-insensitive match, error; an earlier match wins
LookupOrder(p, out, Exact(_)) ==
    /\ Exact(p) => out = GetReturn(GetProp(result, p))
    /\ (~Exact(p) /\ Aliases(p) # {}) =>
          /\ out.kind = "return"
          /\ \E i \in Aliases(p) : out.v = GetProp(result, KeyOf(i))
    /\ (~Exact(p) /\ Aliases(p) = {} /\ CaseMatches(p) # {}) =>
          /\ out.kind = "return"
          /\ \E n \in CaseMatches(p) : out.v = result[n].v
    /\ (~Exact(p) /\ Aliases(p) = {} /\ CaseMatches(p) = {}) =>
          out = GetThrow(p)

IsOwnKey(p) == HasOwn(result, p)
IsProperty(p) == In(result, p)

-----------------------------------------------------------------------------
\* The read name and its outcome
ReadName == lastGet.prop.s
ReadOut  == lastGet.out

\* p equals the key but for letter case, and is not the key itself
IsCaseVariant(p, key) == p # key /\ toLowerCase(p) = toLowerCase(key)

\* p is the name schema key i declares
IsRenameOf(p, i) == OptOf(i).name = Str(p)

\* The names by which the claim says key i is answered
NamesOf(i, p) == p = KeyOf(i) \/ IsCaseVariant(p, KeyOf(i)) \/ IsRenameOf(p, i)

\* Read through the proxy, p is taken from the config object itself: it is in
\* the pass-through list or a property (own or inherited) of the object
ReadFromObject(p) == p \in PassThrough \/ IsProperty(p)

ValueOfKey(i) == GetReturn(GetOwn(result, KeyOf(i)))

\* C11 as stated: for every schema key K the validated config contains, the
\* proxy returns K's value for K, for every letter-case variant of K and for
\* K's declared name, in every schema (those where a name or a case variant
\* coincides with another key's name included).
C11_SameValueForEveryName ==
    (HasRead /\ lastGet.prop.t = "str") =>
        \A i \in SchemaIndex :
            (HasOwn(result, KeyOf(i)) /\ NamesOf(i, ReadName)) =>
                ReadOut = ValueOfKey(i)

\* C11 amended: for a schema key K the validated config contains the proxy
\* returns K's value for K itself; for a case variant of K that is not read
\* from the object itself and that no key declares as its name, when K is the
\* first key of the config equal to it but for case; and for K's declared
\* name when it is not read from the object itself and no earlier schema key
\* declares it.  Otherwise another lookup step answers: a name read from the
\* object itself gives that member of the object, and a case variant that
\* some key declares as its name gives the value of the first such key.
C11_SameValueUnlessShadowed ==
    (HasRead /\ lastGet.prop.t = "str") =>
        \A i \in SchemaIndex :
            HasOwn(result, KeyOf(i)) =>
                LET p == ReadName
                IN  /\ p = KeyOf(i) => ReadOut = ValueOfKey(i)
                    /\ (/\ IsCaseVariant(p, KeyOf(i))
                        /\ ~ReadFromObject(p)
                        /\ Aliases(p) = {}
                        /\ result[First(CaseMatches(p))].k = KeyOf(i)) =>
                            ReadOut = ValueOfKey(i)
                    /\ (/\ IsRenameOf(p, i)
                        /\ ~ReadFromObject(p)
                        /\ i = First(Aliases(p))) =>
                            ReadOut = ValueOfKey(i)
                    /\ (NamesOf(i, p) /\ ReadFromObject(p)) =>
                            ReadOut = GetReturn(GetProp(result, p))
                    /\ (/\ IsCaseVariant(p, KeyOf(i))
                        /\ ~ReadFromObject(p)
                        /\ Aliases(p) # {}) =>
                            ReadOut = GetReturn(GetProp(result, KeyOf(First(Aliases(p)))))

\* The config holds two keys equal but for case with different values, and
\* the read of a third spelling gave the value of the first of them
C11_Witness ==
    /\ HasRead
    /\ lastGet.prop = Str(<<"M","o","d","e">>)
    /\ Cardinality(CaseMatches(ReadName)) = 2
    /\ Aliases(ReadName) = {}
    /\ \E n \in CaseMatches(ReadName) : result[n].v # result[First(CaseMatches(ReadName))].v
    /\ ReadOut = GetReturn(result[First(CaseMatches(ReadName))].v)

\* The name matches schema key i: the key, its declared name, or the key but
\* for letter case
MatchesSchemaKey(p, i) ==
    p = KeyOf(i) \/ IsRenameOf(p, i) \/ toLowerCase(p) = toLowerCase(KeyOf(i))

Throws == ReadOut.kind = "throw"

\* C12: the proxy raises the undefined-key error only for a name that matches
\* no schema key, no declared name and no case variant of a schema key; a
\* name the schema declares (an optional key without value or default, for
\* one) never raises it.
C12_DeclaredNeverThrows ==
    (HasRead /\ lastGet.prop.t = "str" /\ Throws) =>
        \A i \in SchemaIndex : ~MatchesSchemaKey(ReadName, i)

\* C13: read through the proxy, a string name that is not in the pass-through
\* list and matches no schema key, declared name or case variant always
\* raises the undefined-key error naming it, never returning a value; a name
\* of the pass-through list and a symbol never raise it.
C13_UnknownAlwaysThrows ==
    HasRead =>
        IF lastGet.prop.t # "str" \/ lastGet.prop.s \in PassThrough
        THEN ReadOut.kind = "return"
        ELSE (\A i \in SchemaIndex : ~MatchesSchemaKey(ReadName, i)) =>
                 ReadOut = GetThrow(ReadName)

-----------------------------------------------------------------------------
\* The caller's writes

\* What validate returned, whatever was written since
ValidatedConfig == validate(merged, envOptions).result

LastWrite == writes[Len(writes)]

-----------------------------------------------------------------------------
\* The file parser

\* The text of the file the runs that vary the content parse
ParsedText == fs[Candidate(SearchPaths[1], FileNames[1])].text

\* The lines of the text, trimmed
TrimmedLines == LET l == SplitLines(ParsedText) IN [n \in 1..Len(l) |-> trim(l[n])]

IsBlankOrComment(t) == Len(t) = 0 \/ t[1] = "#"

\* The literal key text of a line: its longest prefix of word characters,
\* dots and hyphens
KeyText(t) == SubSeq(t, 1, KeyPrefixLen(t, 0))

\* What follows the key text, white space skipped
AfterKey(t) == TrimStart(SubSeq(t, KeyPrefixLen(t, 0) + 1, Len(t)))

\* The line has the form key = value
HasForm(t) == KeyPrefixLen(t, 0) > 0 /\ Len(AfterKey(t)) > 0 /\ AfterKey(t)[1] = "="

\* The remainder of a key = value line
Remainder(t) == TrimStart(Tail(AfterKey(t)))

\* The lines that are to contribute an entry
EntryLines == {n \in 1..Len(TrimmedLines) :
                  ~IsBlankOrComment(TrimmedLines[n]) /\ HasForm(TrimmedLines[n])}

\* C15: parsing never fails; blank lines and lines whose first non-blank
\* character is `#` contribute nothing, a line without the form key = value
\* contributes nothing, and every other line contributes one entry whose key
\* is the literal key text of the line.
C15_EveryKeyLineGivesEntry ==
    pc # "start" =>
        KeySet(fileEntries) = {KeyText(TrimmedLines[n]) : n \in EntryLines}

\* One layer of matching surrounding quotes removed: an opening quote goes
\* only together with an identical closing one
StripMatchingQuotes(s) ==
    IF Len(s) >= 2 /\ IsQuote(s[1]) /\ s[Len(s)] = s[1]
    THEN SubSeq(s, 2, Len(s) - 1)
    ELSE s

\* The last line that contributes key k
LastLineOf(k) ==
    LET ns == {n \in EntryLines : KeyText(TrimmedLines[n]) = k}
    IN  CHOOSE n \in ns : \A m \in ns : m <= n

\* C16: the parsed value of a key = value line is the remainder of the line
\* with one layer of matching surrounding quotes removed, then trimmed; a
\* value quoted at one end only, or with different quotes at its two ends,
\* keeps its quote characters.
C16_MatchingQuotesOnly ==
    pc # "start" =>
        \A k \in KeySet(fileEntries) :
            GetOwn(fileEntries, k) =
                Str(trim(StripMatchingQuotes(Remainder(TrimmedLines[LastLineOf(k)]))))

-----------------------------------------------------------------------------
\* The built-in conversions

\* The one schema key has a raw value, and no converter of the caller's
HasRaw == HasOwn(merged, KeyOf(1))
Raw == GetOwn(merged, KeyOf(1)).s
BuiltIn == OptOf(1).transform = "none" /\ OptOf(1).zodSchema = "none"

\* s is a decimal numeral: digits, with an optional sign
IsDecimalNumeral(s) ==
    /\ Len(s) > 0
    /\ AllDigits(IF s[1] \in {"+", "-"} THEN Tail(s) ELSE s)

\* The number a decimal numeral denotes
DecimalValue(s) ==
    IF s[1] = "-" THEN 0 - DigitsToNat(Tail(s), 0)
    ELSE IF s[1] = "+" THEN DigitsToNat(Tail(s), 0)
    ELSE DigitsToNat(s, 0)

\* Validation reported that the value of the key is not a number
NotANumberReported ==
    /\ pc = "failed"
    /\ Len(thrown) = 1
    /\ thrown[1].fmt = "Error parsing '${key}': ${msg}"
    /\ thrown[1].key = KeyOf(1)
    /\ thrown[1].msg.fmt = "Not a number: ${value}"
    /\ thrown[1].msg.value = Raw

StoredValue == GetOwn(result, KeyOf(1))

\* C17 as stated: a number-typed key with a raw value and no converter of the
\* caller's gets the value of the raw value when it is a decimal numeral
\* ("5000"), and a conversion error whenever it is not ("abc", and the empty
\* value of a `KEY=` line).
C17_NonDecimalIsError ==
    (Finished /\ OptOf(1).type = "number" /\ BuiltIn /\ HasRaw) =>
        IF IsDecimalNumeral(Raw)
        THEN pc = "returned" /\ StoredValue = Num(DecimalValue(Raw))
        ELSE NotANumberReported

\* C17 amended: such a key is converted as Number() converts: white space
\* around the raw value is ignored; a decimal numeral gives its value; the
\* empty (or blank) value gives 0; an unsigned literal with prefix 0x, 0o or
\* 0b gives its value in that radix; Infinity, signed or not, gives an
\* infinite number; every other raw value records the error
\* "Not a number: <raw>" for the key.
C17_ConvertedAsNumber ==
    (Finished /\ OptOf(1).type = "number" /\ BuiltIn /\ HasRaw) =>
        LET t == trim(Raw)
        IN  IF IsDecimalNumeral(t)
            THEN pc = "returned" /\ StoredValue = Num(DecimalValue(t))
            ELSE IF t = <<>>
            THEN pc = "returned" /\ StoredValue = Num(0)
            ELSE IF RadixLiteral(t).radix > 0
            THEN /\ pc = "returned"
                 /\ StoredValue.t = "num"
                 /\ StoredValue.n >= 0
                 /\ Raw = <<"0","x","1","F">> => StoredValue = Num(31)
                 /\ Raw = <<"0","b","1","0","1">> => StoredValue = Num(5)
            ELSE IF t \in { <<"I","n","f","i","n","i","t","y">>,
                            <<"-","I","n","f","i","n","i","t","y">>,
                            <<"+","I","n","f","i","n","i","t","y">> }
            THEN pc = "returned" /\ StoredValue = Infinity(t[1] = "-")
            ELSE NotANumberReported

\* The line `VALUE=` of a file gave the number-typed key the value 0
C17_Witness ==
    /\ pc = "returned"
    /\ OptOf(1).type = "number"
    /\ BuiltIn
    /\ filesInOrder # <<>>
    /\ HasRaw
    /\ Raw = <<>>
    /\ StoredValue = Num(0)

\* The boolean the claim gives a raw value
ClaimedBoolean(raw) ==
    LET lc == toLowerCase(raw)
    IN  IF lc \in { <<"t","r","u","e">>, <<"1">>, <<"y","e","s">>, <<"o","n">> }
        THEN TRUE
        ELSE IF lc \in { <<"f","a","l","s","e">>, <<"0">>, <<"n","o">>, <<"o","f","f">> }
        THEN FALSE
        ELSE raw # <<>>

-----------------------------------------------------------------------------
\* The template

Generated == pc # "template"

\* The lines of the template written
WrittenLines == split(fs[TemplateFile].text, "\n")

HasDefault(i) == IsDef(OptOf(i).default)

\* The default in string form, a list joined with commas
DefaultText(i) ==
    IF OptOf(i).default.t = "list" THEN join(OptOf(i).default.l, <<",">>)
    ELSE String(OptOf(i).default)

\* The annotation of key i: the description as a comment, the type, the
\* allowed values and the required marker, those that are declared
AnnotationOf(i) ==
    LET o == OptOf(i)
    IN  trim((IF IsDef(o.description) THEN <<"#", " ">> \o o.description.s ELSE <<>>)
             \o (IF o.type # "none" THEN <<" ", "[">> \o TypeName(o.type) \o <<"]">> ELSE <<>>)
             \o (IF IsDef(o.options)
                 THEN PossibleValues \o join(o.options.l, <<",", " ">>) ELSE <<>>)
             \o (IF o.required THEN RequiredMark ELSE <<>>))

\* The template is, key by key in schema order, the annotation, the given
\* example line and a blank line
TemplateIs(Example(_)) ==
    /\ Len(WrittenLines) = 3 * Len(envOptions)
    /\ \A i \in SchemaIndex :
          /\ WrittenLines[3 * i - 2] = AnnotationOf(i)
          /\ WrittenLines[3 * i - 1] = Example(i)
          /\ WrittenLines[3 * i] = <<>>

\* `KEY=` when the key is required or declares no default, `KEY=<default>`
\* otherwise
ExampleUnlessRequired(i) ==
    IF OptOf(i).required \/ ~HasDefault(i)
    THEN KeyOf(i) \o <<"=">>
    ELSE KeyOf(i) \o <<"=">> \o DefaultText(i)

\* `KEY=<default>` when the key declares a default, required or not, `KEY=`
\* otherwise
ExampleWhenDefault(i) ==
    IF HasDefault(i)
    THEN KeyOf(i) \o <<"=">> \o DefaultText(i)
    ELSE KeyOf(i) \o <<"=">>

\* C19 as stated: for every schema key, in schema order, genTemplate writes
\* one annotation line, then `KEY=` when the key is required or declares no
\* default and `KEY=<default>` when a default exists (a list joined with
\* commas), then one blank line.
C19_EmptyWhenRequired ==
    Generated => TemplateIs(ExampleUnlessRequired)

\* C19 amended: for every schema key, in schema order, genTemplate writes one
\* annotation line, then `KEY=<default>` when the key declares a default,
\* whether it is required or not (a list joined with commas; a default whose
\* string form is empty gives `KEY=`), and `KEY=` when it declares none, then
\* one blank line.
C19_DefaultWhenDeclared ==
    Generated => TemplateIs(ExampleWhenDefault)

\* A required key with a default comes second: its lines are the fourth to
\* sixth, the fifth holding the default
C19_Witness ==
    /\ Generated
    /\ Len(envOptions) = 2
    /\ OptOf(2).required
    /\ OptOf(2).default = Str(<<"l","o","w">>)
    /\ Len(WrittenLines) = 6
    /\ WrittenLines[5] = KeyOf(2) \o <<"=","l","o","w">>
    /\ WrittenLines[6] = <<>>

\* The template has been parsed
Parsed == pc \notin {"template", "start"}

\* The default of key i in string form, the empty string without default
DeclaredText(i) == IF HasDefault(i) THEN DefaultText(i) ELSE <<>>

\* The string has neither a quote nor white space at either end
PlainEnds(d) ==
    Len(d) > 0 => /\ ~IsQuote(d[1]) /\ ~IsSpace(d[1])
                  /\ ~IsQuote(d[Len(d)]) /\ ~IsSpace(d[Len(d)])

\* The string without the white space around it, then without a quote at
\* its start and a quote at its end, then without the white space left
WithoutQuotes(d) ==
    LET t == trim(d)
        a == IF Len(t) > 0 /\ IsQuote(t[1]) THEN Tail(t) ELSE t
        b == IF Len(a) > 0 /\ IsQuote(a[Len(a)]) THEN SubSeq(a, 1, Len(a) - 1) ELSE a
    IN  trim(b)

\* C20 as stated: parsing the text genTemplate wrote gives one entry per
\* schema key and none besides, its value the declared default in string
\* form, or the empty value when there is no default.
C20_RoundTrip ==
    Parsed =>
        /\ KeySet(fileEntries) = {KeyOf(i) : i \in SchemaIndex}
        /\ \A i \in SchemaIndex :
              GetOwn(fileEntries, KeyOf(i)) = Str(DeclaredText(i))

\* C20 amended: parsing the text genTemplate wrote gives one entry per schema
\* key and none besides; its value is the declared default in string form
\* as the parser reads a value (white space around it dropped, a quote at
\* its start and a quote at its end removed), which is the default itself
\* when it has neither quote nor white space at either end, and the empty
\* value when there is no default.
C20_RoundTripOfPlainDefaults ==
    Parsed =>
        /\ KeySet(fileEntries) = {KeyOf(i) : i \in SchemaIndex}
        /\ \A i \in SchemaIndex :
              /\ GetOwn(fileEntries, KeyOf(i)) = Str(WithoutQuotes(DeclaredText(i)))
              /\ PlainEnds(DeclaredText(i)) =>
                    GetOwn(fileEntries, KeyOf(i)) = Str(DeclaredText(i))

\* A key with the default 80 and a key without default were written and
\* parsed back: "80" and the empty value
C20_Witness ==
    /\ Parsed
    /\ Len(envOptions) = 2
    /\ \E i, j \in SchemaIndex :
          /\ OptOf(i).default = Num(80)
          /\ GetOwn(fileEntries, KeyOf(i)) = Str(<<"8","0">>)
          /\ ~HasDefault(j)
          /\ GetOwn(fileEntries, KeyOf(j)) = Str(<<>>)

-----------------------------------------------------------------------------
\* C21: a schema key that has no raw value, no default and is not required is
\* left out of the returned config entirely (it is not a member of the
\* mapping), and no line of a failure report names it.
C21_OptionalAbsentLeftOut ==
    Finished =>
        \A i \in SchemaIndex :
            (NoRawValue(KeyOf(i)) /\ ~IsDef(OptOf(i).default) /\ ~OptOf(i).required) =>
                /\ \A n \in 1..Len(thrown) : ~LineNames(thrown[n], KeyOf(i))
                /\ pc = "returned" => ~HasOwn(result, KeyOf(i))

\* A config of two schema keys was returned with one member: the other key is
\* optional, without default and without raw value
C21_Witness ==
    /\ pc = "returned"
    /\ Len(envOptions) = 2
    /\ Len(result) = 1
    /\ \E i \in SchemaIndex :
          /\ NoRawValue(KeyOf(i))
          /\ ~IsDef(OptOf(i).default)
          /\ ~OptOf(i).required
          /\ ~HasOwn(result, KeyOf(i))

-----------------------------------------------------------------------------
\* C22: defineEnvOptions with a block-level group gives that group to every
\* option of the block that has no group of its own (none, or the empty one)
\* and leaves the other groups, and everything else, as written; and the text
\* genTemplateFromBlocks writes is, for the keys of all blocks in order, the
\* three lines of each key preceded by a `# <group>` header line exactly when
\* the key has a group that differs from the group of the header written
\* last, so that no header follows a header of the same group.

\* The keys of all blocks in the order genTemplateFromBlocks walks them
RECURSIVE WalkFrom(_)
WalkFrom(b) ==
    IF b > Len(blocks) THEN <<>> ELSE blocks[b].options \o WalkFrom(b + 1)

Walk == WalkFrom(1)

GroupAt(j) == Walk[j].v.group

\* A header is written before key j; the group of the last header written
\* up to key j
RECURSIVE HeaderBefore(_)
RECURSIVE LastHeader(_)
HeaderBefore(j) == TruthyString(GroupAt(j)) /\ GroupAt(j) # LastHeader(j - 1)

LastHeader(j) ==
    IF j = 0 THEN Undefined
    ELSE IF HeaderBefore(j) THEN GroupAt(j)
    ELSE LastHeader(j - 1)

HeaderLine(group) == <<"#", " ">> \o group.s

RECURSIVE GroupedLinesFrom(_)
GroupedLinesFrom(j) ==
    IF j > Len(Walk) THEN <<>>
    ELSE (IF HeaderBefore(j) THEN <<HeaderLine(GroupAt(j))>> ELSE <<>>)
         \o TemplateLines(Walk[j].k, Walk[j].v)
         \o GroupedLinesFrom(j + 1)

\* The groups of the headers written, in order
HeadersWritten ==
    LET at == SelectSeq([j \in 1..Len(Walk) |-> j], HeaderBefore)
    IN  [n \in 1..Len(at) |-> GroupAt(at[n])]

\* What defineEnvOptions is to make of option i of block b
GroupGiven(b, i) ==
    LET own == blocks[b].declared[i].v.group
    IN  IF blocks[b].defined /\ TruthyString(blocks[b].meta) /\ ~TruthyString(own)
        THEN blocks[b].meta
        ELSE own

C22_GroupedTemplate ==
    /\ \A b \in 1..Len(blocks) :
          /\ Len(blocks[b].options) = Len(blocks[b].declared)
          /\ \A i \in 1..Len(blocks[b].options) :
                blocks[b].options[i] =
                    [blocks[b].declared[i] EXCEPT !.v.group = GroupGiven(b, i)]
    /\ pc = "written" =>
          /\ WrittenLines = GroupedLinesFrom(1)
          /\ \A n \in 1..(Len(HeadersWritten) - 1) :
                HeadersWritten[n] # HeadersWritten[n + 1]

\* A template of two blocks was written in which an option took the group of
\* its block, an option kept a group of its own that is not the block's, two
\* headers were written, and a grouped key follows the header of its group
\* without a header of its own
C22_Witness ==
    /\ pc = "written"
    /\ Len(blocks) = 2
    /\ \E b \in 1..Len(blocks), i \in 1..2 :
          /\ ~TruthyString(blocks[b].declared[i].v.group)
          /\ blocks[b].options[i].v.group = blocks[b].meta
          /\ TruthyString(blocks[b].meta)
    /\ \E b \in 1..Len(blocks), i \in 1..2 :
          /\ TruthyString(blocks[b].meta)
          /\ TruthyString(blocks[b].declared[i].v.group)
          /\ blocks[b].options[i].v.group # blocks[b].meta
    /\ Cardinality({j \in 1..Len(Walk) : HeaderBefore(j)}) >= 2
    /\ \E j \in 1..Len(Walk) : TruthyString(GroupAt(j)) /\ ~HeaderBefore(j)
    /\ WrittenLines = GroupedLinesFrom(1)

-----------------------------------------------------------------------------
\* C23: a schema key matches a file key or a process.env key exactly when the
\* two names are equal after lowercasing, letter by letter (nothing is
\* stripped): after load the schema key has a raw value exactly when a file
\* key matches it or, failing that and with envFallback on, a process.env key
\* does; the value is that of one of the matching keys, the first of them in
\* the mapping's order, and it is stored under the schema key's own spelling.

\* The two names are the same but for the case of their letters
SameButForCase(a, b) ==
    /\ Len(a) = Len(b)
    /\ \A n \in 1..Len(a) : LowerChar(a[n]) = LowerChar(b[n])

MatchingKeys(o, key) == {n \in 1..Len(o) : SameButForCase(o[n].k, key)}

\* The mapping the value of the key is taken from
SourceOf(key) ==
    IF MatchingKeys(fileEntries, key) # {} THEN fileEntries
    ELSE IF config.envFallback THEN procEnv
    ELSE <<>>

C23_MatchByLowercase ==
    AfterLoad =>
        /\ KeySet(merged) \subseteq {KeyOf(i) : i \in SchemaIndex}
        /\ \A i \in SchemaIndex :
              LET from  == SourceOf(KeyOf(i))
                  cands == MatchingKeys(from, KeyOf(i))
              IN  /\ HasOwn(merged, KeyOf(i)) <=> cands # {}
                  /\ cands # {} =>
                        GetOwn(merged, KeyOf(i)) = from[First(cands)].v

\* The value of MODE was taken from process.env, where Mode and MODE match
\* it and MO_DE does not
C23_Witness ==
    /\ AfterLoad
    /\ \E i \in SchemaIndex :
          /\ KeyOf(i) = MODE
          /\ MatchingKeys(fileEntries, MODE) = {}
          /\ Cardinality(MatchingKeys(procEnv, MODE)) = 2
          /\ \E n \in 1..Len(procEnv) : procEnv[n].k = <<"M","O","_","D","E">>
          /\ GetOwn(merged, MODE) = Str(prod)

-----------------------------------------------------------------------------
\* C24: for a key with a raw value exactly one conversion decides the outcome:
\* the custom converter when one is declared, whatever the type and the zod
\* schema; otherwise the zod schema when one is declared; otherwise the
\* built-in conversion of the type.  What that conversion returns is what the
\* config holds for the key, and what it throws is what the report says.

\* The outcome of the one conversion the key's declaration selects
Selected(i) ==
    LET raw == GetOwn(merged, KeyOf(i))
    IN  CASE OptOf(i).transform # "none" -> ApplyTransform(OptOf(i).transform, raw)
          [] OptOf(i).transform = "none" /\ OptOf(i).zodSchema # "none" ->
                 ApplyZod(OptOf(i).zodSchema, raw)
          [] OTHER -> parse(raw, OptOf(i).type)

C24_OneConversion ==
    Finished =>
        \A i \in SchemaIndex :
            HasOwn(merged, KeyOf(i)) =>
                /\ ~Selected(i).ok =>
                      /\ pc = "failed"
                      /\ \E n \in 1..Len(thrown) :
                            thrown[n] = CaughtLine(KeyOf(i), Selected(i).err)
                /\ Selected(i).ok =>
                      /\ \A n \in 1..Len(thrown) :
                            LineNames(thrown[n], KeyOf(i)) => IsInvalidLine(thrown[n])
                      /\ pc = "returned" => GetOwn(result, KeyOf(i)) = Selected(i).v

\* A boolean-typed key with a zod schema and a custom converter was given a
\* raw value of two characters, which the zod schema rejects and the built-in
\* conversion turns into true: the config holds what the converter returns
C24_Witness ==
    /\ pc = "returned"
    /\ \E i \in SchemaIndex :
          /\ OptOf(i).type = "boolean"
          /\ OptOf(i).transform = "length"
          /\ OptOf(i).zodSchema = "min3"
          /\ HasOwn(merged, KeyOf(i))
          /\ Len(GetOwn(merged, KeyOf(i)).s) = 2
          /\ GetOwn(result, KeyOf(i)) = Num(2)

-----------------------------------------------------------------------------
\* C25: with debug on, loadEnvFiles records one duplicate-key warning for each
\* parsed line that overwrites the value of an already parsed key and none
\* for a line that overwrites nothing; the warning names the key, the line
\* number of the earlier occurrence, the line number of the later one and,
\* when the two are in different files, the file of each.  With debug off
\* nothing is recorded.

\* The lines of a file that give an entry, with their line numbers
KeyLinesOf(file) ==
    LET ls    == SplitLines(fs[file].text)
        all   == [n \in 1..Len(ls) |-> [file |-> file, n |-> n, t |-> trim(ls[n])]]
        given == SelectSeq(all, LAMBDA e : /\ Len(e.t) > 0
                                          /\ e.t[1] # "#"
                                          /\ MatchLine(e.t).ok)
    IN  [p \in 1..Len(given) |->
            [file |-> given[p].file, n |-> given[p].n, key |-> MatchLine(given[p].t).key]]

RECURSIVE KeyLinesFrom(_)
KeyLinesFrom(f) ==
    IF f > Len(filesInOrder) THEN <<>>
    ELSE KeyLinesOf(filesInOrder[f]) \o KeyLinesFrom(f + 1)

\* Every parsed line of every file parsed, in the order parsed
KeyLines == KeyLinesFrom(1)

\* The earlier lines that set the key line p sets
EarlierOf(p) == {q \in 1..(p - 1) : KeyLines[q].key = KeyLines[p].key}

Overwriting == {p \in 1..Len(KeyLines) : EarlierOf(p) # {}}

\* The earlier occurrence line p overwrites: the last one before it
Overwritten(p) == KeyLines[CHOOSE q \in EarlierOf(p) : \A r \in EarlierOf(p) : r <= q]

\* The warning tells of this file
NamesFile(d, file) == d.file = file

\* The warning is the one owed to line p
WarnsOf(d, p) ==
    /\ d.key = KeyLines[p].key
    /\ d.first = Num(Overwritten(p).n)
    /\ d.second = KeyLines[p].n
    /\ NamesFile(d, KeyLines[p].file)
    /\ NamesFile(d, Overwritten(p).file)

C25_OneWarningPerOverwrite ==
    pc # "start" =>
        IF config.debug
        THEN /\ Len(dups) = Cardinality(Overwriting)
             /\ \A p \in Overwriting : \E n \in 1..Len(dups) : WarnsOf(dups[n], p)
        ELSE dups = <<>>

-----------------------------------------------------------------------------
\* C26: every line of a template genTemplate wrote is blank, or begins with
\* `#`, or is the `KEY=...` line of a schema key; the annotation line of
\* every key that declares a type, allowed values or `required` begins with
\* `#`, with or without a description.

IsComment(line) == Len(line) > 0 /\ line[1] = "#"

\* The line is `KEY=...` for the schema key i
IsKeyLineOf(line, i) ==
    /\ Len(line) > Len(KeyOf(i))
    /\ SubSeq(line, 1, Len(KeyOf(i)) + 1) = KeyOf(i) \o <<"=">>

Annotated(i) ==
    OptOf(i).type # "none" \/ IsDef(OptOf(i).options) \/ OptOf(i).required

C26_CommentOrKeyLines ==
    Generated =>
        /\ \A n \in 1..Len(WrittenLines) :
              \/ WrittenLines[n] = <<>>
              \/ IsComment(WrittenLines[n])
              \/ \E i \in SchemaIndex : IsKeyLineOf(WrittenLines[n], i)
        /\ \A i \in SchemaIndex :
              Annotated(i) => IsComment(WrittenLines[3 * i - 2])

-----------------------------------------------------------------------------
\* C27: under merge, when several of the files found define a key that matches
\* a schema key, in whatever letter case, the value resolved for the schema
\* key is one the last of those files gives: an earlier file never wins over
\* a later one.

\* The files found that define a key matching `key`, by position
DefiningFiles(key) ==
    {f \in 1..Len(filesInOrder) : Matching(ParseOne(filesInOrder[f]), key) # {}}

\* The values the file at position f gives to the keys matching `key`
ValuesIn(f, key) ==
    LET parsed == ParseOne(filesInOrder[f])
    IN  {parsed[m].v : m \in Matching(parsed, key)}

C27_LaterFileWins ==
    (AfterLoad /\ config.merge) =>
        \A i \in SchemaIndex :
            LET defining == DefiningFiles(KeyOf(i))
            IN  defining # {} =>
                    \E f \in defining :
                        /\ \A g \in defining : g <= f
                        /\ GetOwn(merged, KeyOf(i)) \in ValuesIn(f, KeyOf(i))

-----------------------------------------------------------------------------
\* C28: the keys of a config createConfig returns are schema keys; a key of a
\* file or of process.env that matches no schema key is never a key of the
\* config and never causes an error: no line of a report names it, and the
\* outcome is the one the same run has without it.

SchemaKeys == {KeyOf(i) : i \in SchemaIndex}

IsDeclared(k) == \E i \in SchemaIndex : normalizeKey(k) = normalizeKey(KeyOf(i))

\* The entries of a mapping whose keys match a schema key
DeclaredOnly(o) == SelectSeq(o, LAMBDA e : IsDeclared(e.k))

\* What validate gives when only those entries are there
OutcomeOfDeclared ==
    validate(load(config, envOptions, DeclaredOnly(fileEntries), DeclaredOnly(procEnv)),
             envOptions)

C28_OnlySchemaKeys ==
    Finished =>
        /\ KeySet(result) \subseteq SchemaKeys
        /\ \A n \in 1..Len(thrown) : \E k \in SchemaKeys : LineNames(thrown[n], k)
        /\ (pc = "returned") = OutcomeOfDeclared.ok
        /\ pc = "returned" => result = OutcomeOfDeclared.result
        /\ pc = "failed" => thrown = OutcomeOfDeclared.lines

\* A config was returned, with a key, from a file and a process.env that
\* both hold a key no schema key matches
C28_Witness ==
    /\ pc = "returned"
    /\ Len(result) > 0
    /\ config.envFallback
    /\ \E n \in 1..Len(fileEntries) : ~IsDeclared(fileEntries[n].k)
    /\ \E n \in 1..Len(procEnv) : ~IsDeclared(procEnv[n].k)

-----------------------------------------------------------------------------
\* C29: with envFallback off the outcome of createConfig (the config returned,
\* or the failure and its report) does not depend on process.env: it is the
\* outcome of the run with the same schema, files and loader options under
\* any other process.env; and no step of createConfig writes to process.env.

\* The outcome of the run: the config returned or the report thrown
Outcome ==
    IF pc = "returned" THEN [ok |-> TRUE, result |-> result]
    ELSE [ok |-> FALSE, lines |-> thrown]

\* The outcome of the same run under the process environment env
OutcomeUnder(cfg, env) ==
    validate(load(cfg, envOptions, loadEnvFiles(cfg, fs).acc, env), envOptions)

IndependentOfEnv ==
    (Finished /\ ~config.envFallback) =>
        \A env \in ProcEnvs : OutcomeUnder(config, env) = Outcome

C29_EnvIgnoredWithoutFallback ==
    /\ []IndependentOfEnv
    /\ [][procEnv' = procEnv]_vars

\* A run without envFallback finished whose outcome is not the one the same
\* run has with envFallback: process.env holds a value the run left alone
C29_Witness ==
    /\ Finished
    /\ ~config.envFallback
    /\ Len(procEnv) > 0
    /\ OutcomeUnder([config EXCEPT !.envFallback = TRUE], procEnv) # Outcome
    /\ OutcomeUnder(config, <<>>) = Outcome

-----------------------------------------------------------------------------
\* C30: a key written in a file with an empty value (`KEY=`) is present with
\* the empty string as raw value: process.env is not consulted for it, even
\* with envFallback on; it is not reported missing and its default is not
\* applied; the empty string goes through the conversion and the
\* allowed-values check, whose outcome is the key's outcome.

\* The files give the key the empty value
EmptyInFile(key) ==
    /\ MatchingKeys(fileEntries, key) # {}
    /\ fileEntries[First(MatchingKeys(fileEntries, key))].v = Str(<<>>)

\* What the key's conversion makes of the empty string
OfEmpty(i) == Convert(OptOf(i), Str(<<>>))

AllowsConverted(i) ==
    IsDef(OptOf(i).options) => String(OfEmpty(i).v) \in Range(OptOf(i).options.l)

C30_EmptyValueIsPresent ==
    Finished =>
        \A i \in SchemaIndex :
            EmptyInFile(KeyOf(i)) =>
                /\ GetOwn(merged, KeyOf(i)) = Str(<<>>)
                /\ \A n \in 1..Len(thrown) :
                      IsMissingLine(thrown[n]) => ~LineNames(thrown[n], KeyOf(i))
                /\ ~OfEmpty(i).ok =>
                      \E n \in 1..Len(thrown) :
                          thrown[n] = CaughtLine(KeyOf(i), OfEmpty(i).err)
                /\ (OfEmpty(i).ok /\ ~AllowsConverted(i)) =>
                      \E n \in 1..Len(thrown) :
                          thrown[n] = InvalidLine(KeyOf(i), OfEmpty(i).v)
                /\ (OfEmpty(i).ok /\ AllowsConverted(i) /\ pc = "returned") =>
                      GetOwn(result, KeyOf(i)) = OfEmpty(i).v

\* With envFallback on and a process.env that holds the key, a key that
\* declares a default was returned as the empty string its file line gives
C30_Witness ==
    /\ pc = "returned"
    /\ config.envFallback
    /\ \E i \in SchemaIndex :
          /\ EmptyInFile(KeyOf(i))
          /\ IsDef(OptOf(i).default)
          /\ OptOf(i).default # Str(<<>>)
          /\ MatchingKeys(procEnv, KeyOf(i)) # {}
          /\ GetOwn(result, KeyOf(i)) = Str(<<>>)

====
